---- MODULE Spec2Model ----
(***************************************************************************)
(* Serial Studio dashboard generator (ss::Dashboard).                      *)
(*                                                                         *)
(* The model follows src/ss_dashboard.cpp: begin() builds the JSON         *)
(* document and the slot table from the configuration, update() patches    *)
(* the "value" leaves from a telemetry snapshot, estimateSize() and        *)
(* serialize() render the document into a caller buffer.                   *)
(*                                                                         *)
(* Text is modelled byte for byte with TLA+ strings (Len, \o and SubSeq    *)
(* act on them character-wise).  JSON values are tagged records            *)
(* [t |-> tag, v |-> payload]; an object is an ordered sequence of         *)
(* members [k |-> key, v |-> value] as ArduinoJson keeps insertion order.  *)
(*                                                                         *)
(* ArduinoJson is the library the code is written against (version 7).     *)
(* Its calls are modelled by their documented behaviour: serializeJson     *)
(* into a (void*, size) buffer writes at most size bytes, truncating, and  *)
(* returns the number of bytes written; measureJson returns the length of  *)
(* the compact rendering; is<float>() is true of every number, integers    *)
(* included; assigning a const char* to a member copies the characters     *)
(* (7.3 and later).                                                        *)
(*                                                                         *)
(* The configuration is borrowed: its arrays are pointers with separate    *)
(* counts, as in ss_dashboard_config.h.  begin() loads through them        *)
(* without a null check; on a configuration whose array is null while its  *)
(* count is not, the load is undefined behaviour and begin() has several   *)
(* outcomes: the load traps, or it delivers stray bytes.                   *)
(*                                                                         *)
(* Spec runs the component on the configuration of the unit tests and on   *)
(* one built from the struct defaults; SpecCap on configurations with as   *)
(* many and with more keyed datasets than slots; SpecWide on a             *)
(* configuration of deep and over-long telemetry keys and on the invalid   *)
(* configurations; SpecEdge on a configuration of null strings, empty      *)
(* key segments and leaves that are no scalars.  `cleared` records what    *)
(* the last begin() found and dropped.                                     *)
(*                                                                         *)
(* SpecTcp follows the WiFiTcpServer example sketch: the AsyncTCP          *)
(* callbacks, which keep the clients table, run interleaved with the       *)
(* dashboard task, one step per call on a client or load of a table        *)
(* entry.  The sketch never deletes a client object.  AsyncClient is       *)
(* modelled by its state (open or closed) and the free bytes of its send   *)
(* buffer; a frame by its length.  The loads and stores of table entries   *)
(* are taken as atomic although the sketch does not synchronise them.      *)
(* SpecTcpLive adds weak fairness of the task, which FreeRTOS keeps        *)
(* scheduling, and of the peer acknowledging what a connected client has   *)
(* in flight.                                                              *)
(***************************************************************************)
EXTENDS Integers, Sequences, FiniteSets, TLC

\* ------------------------------------------------------------------------
\* C pointers: the null pointer, or a pointer to characters or to an array.
\* ------------------------------------------------------------------------
NullPtr == <<>>
Ptr(s) == <<s>>
Deref(p) == p[1]
\* p[i] of a pointer to the first element of an array, i counted from 0
At(p, i) == Deref(p)[i + 1]

\* ------------------------------------------------------------------------
\* JSON values (ArduinoJson JsonVariant)
\* ------------------------------------------------------------------------
JNull == [t |-> "null", v |-> 0]
JBool(b) == [t |-> "bool", v |-> b]
JInt(n) == [t |-> "int", v |-> n]
\* a float leaf m * 10^-d, kept as the pair <<m, d>>
JFloat(m, d) == [t |-> "float", v |-> <<m, d>>]
JStr(s) == [t |-> "str", v |-> s]
JArr(elems) == [t |-> "arr", v |-> elems]
JObj(members) == [t |-> "obj", v |-> members]
Member(k, val) == [k |-> k, v |-> val]

\* obj[key] on a variant: the member's value, or null when the variant is
\* no object or has no such member
HasMember(obj, key) == obj.t = "obj" /\ \E i \in 1..Len(obj.v) : obj.v[i].k = key
GetMember(obj, key) ==
    IF HasMember(obj, key)
    THEN obj.v[CHOOSE i \in 1..Len(obj.v) : obj.v[i].k = key].v
    ELSE JNull

\* obj[key] = val on a JsonObject: replaces in place, or appends
SetMember(obj, key, val) ==
    IF HasMember(obj, key)
    THEN JObj([i \in 1..Len(obj.v) |->
                 IF obj.v[i].k = key THEN Member(key, val) ELSE obj.v[i]])
    ELSE JObj(Append(obj.v, Member(key, val)))

\* ------------------------------------------------------------------------
\* Text helpers
\* ------------------------------------------------------------------------
CharAt(s, i) == SubSeq(s, i, i)
\* the first n characters of s, all of s when it is shorter
Take(s, n) == IF n >= Len(s) THEN s ELSE SubSeq(s, 1, n)
Digit(d) == CharAt("0123456789", d + 1)

RECURSIVE uintStr(_)
uintStr(n) == IF n < 10 THEN Digit(n) ELSE uintStr(n \div 10) \o Digit(n % 10)

\* printf("%d"-family): plain decimal digits with a leading minus sign
intStr(n) == IF n < 0 THEN "-" \o uintStr(-n) ELSE uintStr(n)

RECURSIVE Pow10(_)
Pow10(k) == IF k = 0 THEN 1 ELSE 10 * Pow10(k - 1)

\* number of decimal digits of n >= 0
RECURSIVE NumDigits(_)
NumDigits(n) == IF n < 10 THEN 1 ELSE 1 + NumDigits(n \div 10)

\* s without its trailing '0' characters
RECURSIVE StripZeros(_)
StripZeros(s) ==
    IF Len(s) > 0 /\ CharAt(s, Len(s)) = "0"
    THEN StripZeros(SubSeq(s, 1, Len(s) - 1))
    ELSE s

\* n >= 0 as exactly w digits, zero padded on the left
RECURSIVE PadDigits(_, _)
PadDigits(n, w) == IF w = 0 THEN "" ELSE PadDigits(n \div 10, w - 1) \o Digit(n % 10)

\* ------------------------------------------------------------------------
\* ArduinoJson text rendering (TextFormatter, JsonSerializer,
\* PrettyJsonSerializer)
\* ------------------------------------------------------------------------
\* one character of a JSON string, escaped as TextFormatter::writeChar does
escapeChar(c) ==
    CASE c = "\"" -> "\\\""
      [] c = "\\" -> "\\\\"
      [] c = "\n" -> "\\n"
      [] c = "\r" -> "\\r"
      [] c = "\t" -> "\\t"
      [] c = "\f" -> "\\f"
      [] OTHER -> c

RECURSIVE escapeChars(_)
escapeChars(s) ==
    IF s = "" THEN "" ELSE escapeChar(CharAt(s, 1)) \o escapeChars(SubSeq(s, 2, Len(s)))

writeString(s) == "\"" \o escapeChars(s) \o "\""

\* a float m * 10^-d: integer part, then the fraction without trailing zeros
writeFloat(m, d) ==
    LET a == IF m < 0 THEN -m ELSE m
        ip == a \div Pow10(d)
        frac == StripZeros(PadDigits(a % Pow10(d), d))
    IN (IF m < 0 THEN "-" ELSE "") \o uintStr(ip) \o
       (IF frac = "" THEN "" ELSE "." \o frac)

RECURSIVE indent(_)
indent(nesting) == IF nesting = 0 THEN "" ELSE "  " \o indent(nesting - 1)

RECURSIVE writeValue(_, _, _), writeElements(_, _, _, _), writeMembers(_, _, _, _)
\* the rendering of one value; pretty selects PrettyJsonSerializer
writeValue(val, pretty, nesting) ==
    CASE val.t = "null" -> "null"
      [] val.t = "bool" -> (IF val.v THEN "true" ELSE "false")
      [] val.t = "int" -> intStr(val.v)
      [] val.t = "float" -> writeFloat(val.v[1], val.v[2])
      [] val.t = "str" -> writeString(val.v)
      [] val.t = "arr" ->
            IF Len(val.v) = 0 THEN "[]"
            ELSE IF pretty
                 THEN "[\r\n" \o writeElements(val.v, 1, TRUE, nesting + 1)
                              \o indent(nesting) \o "]"
                 ELSE "[" \o writeElements(val.v, 1, FALSE, nesting) \o "]"
      [] val.t = "obj" ->
            IF Len(val.v) = 0 THEN "{}"
            ELSE IF pretty
                 THEN "{\r\n" \o writeMembers(val.v, 1, TRUE, nesting + 1)
                              \o indent(nesting) \o "}"
                 ELSE "{" \o writeMembers(val.v, 1, FALSE, nesting) \o "}"

writeElements(elems, i, pretty, nesting) ==
    IF i > Len(elems) THEN ""
    ELSE (IF pretty THEN indent(nesting) ELSE "")
         \o writeValue(elems[i], pretty, nesting)
         \o (IF pretty
             THEN (IF i = Len(elems) THEN "\r\n" ELSE ",\r\n")
             ELSE (IF i = Len(elems) THEN "" ELSE ","))
         \o writeElements(elems, i + 1, pretty, nesting)

writeMembers(members, i, pretty, nesting) ==
    IF i > Len(members) THEN ""
    ELSE (IF pretty THEN indent(nesting) ELSE "")
         \o writeString(members[i].k)
         \o (IF pretty THEN ": " ELSE ":")
         \o writeValue(members[i].v, pretty, nesting)
         \o (IF pretty
             THEN (IF i = Len(members) THEN "\r\n" ELSE ",\r\n")
             ELSE (IF i = Len(members) THEN "" ELSE ","))
         \o writeMembers(members, i + 1, pretty, nesting)

\* the complete rendering of a document
jsonText(doc, pretty) == writeValue(doc, pretty, 0)

\* measureJson(doc): length of the compact rendering, no terminator
measureJson(doc) == Len(jsonText(doc, FALSE))

\* the two renderings of a document, as serializeJson and
\* serializeJsonPretty produce them into unbounded space
renderings(doc) == [compact |-> jsonText(doc, FALSE), pretty |-> jsonText(doc, TRUE)]

\* serializeJson / serializeJsonPretty(doc, void* buffer, size): the static
\* writer stops at the end of the buffer; the result is the bytes written.
\* json holds the renderings of the document.
serializeJson(json, room) == Take(json.compact, room)
serializeJsonPretty(json, room) == Take(json.pretty, room)

\* ------------------------------------------------------------------------
\* Configuration (ss_dashboard_config.h)
\* ------------------------------------------------------------------------
\* DatasetCfg with the member initialisers of the struct; float members hold
\* whole numbers here
DatasetCfg ==
    [title |-> NullPtr, units |-> Ptr(""), telemetryKey |-> NullPtr,
     index |-> 0, widget |-> "None",
     widgetMin |-> 0, widgetMax |-> 0, plotMin |-> 0, plotMax |-> 0,
     alarmLow |-> 0, alarmHigh |-> 0,
     alarmEnabled |-> FALSE, graph |-> FALSE, log |-> FALSE, led |-> FALSE,
     ledHigh |-> 0, overviewDisplay |-> FALSE, fft |-> FALSE,
     fftSamples |-> 256, fftSamplingRate |-> 100, xAxis |-> -1]

GroupCfg == [title |-> NullPtr, widget |-> "None", datasets |-> NullPtr, datasetCount |-> 0]

ActionCfg == [title |-> NullPtr, txData |-> NullPtr, icon |-> NullPtr, eol |-> Ptr("\n")]

DashboardCfg ==
    [title |-> NullPtr, groups |-> NullPtr, groupCount |-> 0,
     actions |-> NullPtr, actionCount |-> 0]

\* the counts the loops of begin() run to
groupCount(cfg) == cfg.groupCount
actionCount(cfg) == cfg.actionCount
datasetCount(grp) == grp.datasetCount

\* Dashboard::kMaxSlots
kMaxSlots == 48

widgetStr(w) ==
    CASE w = "Gauge" -> "gauge"
      [] w = "Bar" -> "bar"
      [] w = "Led" -> "led"
      [] OTHER -> ""

groupWidgetStr(w) ==
    CASE w = "Multiplot" -> "multiplot"
      [] w = "Datagrid" -> "datagrid"
      [] w = "Accelerometer" -> "accelerometer"
      [] OTHER -> ""

\* OrDefault falling back to the empty string everywhere
OrEmpty(p, dflt) == IF p # NullPtr THEN Deref(p) ELSE ""

\* p ? p : dflt
OrDefault(p, dflt) == IF p # NullPtr THEN Deref(p) ELSE dflt

\* ------------------------------------------------------------------------
\* begin(): the document and the slot table
\* ------------------------------------------------------------------------
\* one action object of buildActions()
actionObject(a) ==
    JObj(<<Member("autoExecuteOnConnect", JBool(FALSE)),
           Member("binary", JBool(FALSE)),
           Member("eol", JStr(OrDefault(a.eol, "\n"))),
           Member("icon", JStr(OrDefault(a.icon, ""))),
           Member("timerIntervalMs", JInt(100)),
           Member("timerMode", JInt(0)),
           Member("title", JStr(OrDefault(a.title, ""))),
           Member("txData", JStr(OrDefault(a.txData, "")))>>)

buildActions(cfg) == JArr([i \in 1..actionCount(cfg) |-> actionObject(At(cfg.actions, i - 1))])

\* Placeholder as the empty string
PlaceholderEmpty == ""

\* dObj["value"] = "0"
Placeholder == "0"

\* one dataset object of buildGroups(), "value" set to the placeholder
datasetObject(ds) ==
    JObj(<<Member("alarmEnabled", JBool(ds.alarmEnabled)),
           Member("alarmHigh", JFloat(ds.alarmHigh, 0)),
           Member("alarmLow", JFloat(ds.alarmLow, 0)),
           Member("fft", JBool(ds.fft)),
           Member("fftMax", JInt(0)),
           Member("fftMin", JInt(0)),
           Member("fftSamples", JInt(ds.fftSamples)),
           Member("fftSamplingRate", JInt(ds.fftSamplingRate)),
           Member("graph", JBool(ds.graph)),
           Member("index", JInt(ds.index)),
           Member("led", JBool(ds.led)),
           Member("ledHigh", JInt(ds.ledHigh)),
           Member("log", JBool(ds.log)),
           Member("overviewDisplay", JBool(ds.overviewDisplay)),
           Member("plotMax", JFloat(ds.plotMax, 0)),
           Member("plotMin", JFloat(ds.plotMin, 0)),
           Member("title", JStr(OrDefault(ds.title, ""))),
           Member("units", JStr(OrDefault(ds.units, ""))),
           Member("value", JStr(Placeholder)),
           Member("widget", JStr(widgetStr(ds.widget))),
           Member("widgetMax", JFloat(ds.widgetMax, 0)),
           Member("widgetMin", JFloat(ds.widgetMin, 0)),
           Member("xAxis", JInt(ds.xAxis))>>)

groupObject(grp) ==
    JObj(<<Member("title", JStr(OrDefault(grp.title, ""))),
           Member("widget", JStr(groupWidgetStr(grp.widget))),
           Member("datasets",
                  JArr([i \in 1..datasetCount(grp) |-> datasetObject(At(grp.datasets, i - 1))]))>>)

\* ValueSlot recording the dataset index one too high
ValueSlotOffByOne(key, gi, di) ==
    [telemetryKey |-> key, groupIdx |-> gi, datasetIdx |-> di + 1]

\* a value slot; groupIdx and datasetIdx count from 0 as in the code
ValueSlot(key, gi, di) == [telemetryKey |-> key, groupIdx |-> gi, datasetIdx |-> di]

\* registersSlot without the capacity test
registersSlotUncapped(ds, count) ==
    /\ ds.telemetryKey # NullPtr
    /\ Deref(ds.telemetryKey) # ""

\* registersSlot taking a dataset whose key is the empty string
registersSlotAnyKey(ds, count) ==
    /\ ds.telemetryKey # NullPtr
    /\ count < kMaxSlots

\* the slot registration of buildGroups(): whether dataset ds takes a slot
\* when count slots are taken
registersSlot(ds, count) ==
    /\ ds.telemetryKey # NullPtr
    /\ Deref(ds.telemetryKey) # ""
    /\ count < kMaxSlots

\* the inner loop of buildGroups() over di, carrying the slot table
RECURSIVE datasetLoop(_, _, _, _)
datasetLoop(grp, gi, di, slots) ==
    IF di >= datasetCount(grp) THEN slots
    ELSE LET ds == At(grp.datasets, di)
         IN IF registersSlot(ds, Len(slots))
            THEN datasetLoop(grp, gi, di + 1,
                             Append(slots, ValueSlot(ds.telemetryKey, gi, di)))
            ELSE datasetLoop(grp, gi, di + 1, slots)

\* the outer loop of buildGroups() over gi
RECURSIVE slotLoop(_, _, _)
slotLoop(cfg, gi, slots) ==
    IF gi >= groupCount(cfg) THEN slots
    ELSE LET after == datasetLoop(At(cfg.groups, gi), gi, 0, slots)
         IN slotLoop(cfg, gi + 1, after)

buildGroups(cfg) ==
    [groups |-> JArr([i \in 1..groupCount(cfg) |-> groupObject(At(cfg.groups, i - 1))]),
     slots |-> slotLoop(cfg, 0, <<>>)]

\* the document begin() leaves in doc_
beginDoc(cfg) ==
    JObj(<<Member("title", JStr(OrDefault(cfg.title, "Dashboard"))),
           Member("actions", buildActions(cfg)),
           Member("checksum", JStr("")),
           Member("decoder", JInt(0)),
           Member("hexadecimalDelimiters", JBool(FALSE)),
           Member("dashboardLayout",
                  JObj(<<Member("autoLayout", JBool(TRUE)),
                         Member("windowOrder", JArr(<<>>))>>)),
           Member("groups", buildGroups(cfg).groups)>>)

\* begin() reads actions[0 .. actionCount-1], groups[0 .. groupCount-1] and
\* each group's datasets[0 .. datasetCount-1] without a null check
readable(p, count) == count = 0 \/ (p # NullPtr /\ Len(Deref(p)) >= count)

groupsReadable(cfg, n) ==
    \A gi \in 0..(n - 1) :
        readable(At(cfg.groups, gi).datasets, datasetCount(At(cfg.groups, gi)))

validCfg(cfg) ==
    /\ readable(cfg.actions, actionCount(cfg))
    /\ readable(cfg.groups, groupCount(cfg))
    /\ groupsReadable(cfg, groupCount(cfg))

\* what a load through a null array pointer may deliver when it does not
\* trap: the bytes found at that address, read as the struct
StrayActions == {[title |-> NullPtr, txData |-> NullPtr, icon |-> NullPtr, eol |-> NullPtr],
                 [title |-> Ptr("?"), txData |-> NullPtr, icon |-> NullPtr, eol |-> Ptr("")]}
StrayGroups == {[title |-> NullPtr, widget |-> "None", datasets |-> NullPtr, datasetCount |-> 0],
                [title |-> Ptr("?"), widget |-> "Datagrid", datasets |-> NullPtr,
                 datasetCount |-> 0]}
StrayDatasets == {[DatasetCfg EXCEPT !.units = NullPtr, !.fftSamples = 0,
                                     !.fftSamplingRate = 0, !.xAxis = 0],
                  [DatasetCfg EXCEPT !.telemetryKey = Ptr("?"), !.index = 255]}

\* the configuration begin() sees when its loads through null pointers
\* deliver a, g and d
seenCfg(cfg, a, g, d) ==
    LET withActions ==
            IF readable(cfg.actions, actionCount(cfg)) THEN cfg
            ELSE [cfg EXCEPT !.actions = Ptr([i \in 1..actionCount(cfg) |-> a])]
        withGroups ==
            IF readable(cfg.groups, groupCount(cfg)) THEN withActions
            ELSE [withActions EXCEPT !.groups = Ptr([i \in 1..groupCount(cfg) |-> g])]
        fillDatasets(grp) ==
            IF readable(grp.datasets, datasetCount(grp)) THEN grp
            ELSE [grp EXCEPT !.datasets = Ptr([i \in 1..datasetCount(grp) |-> d])]
    IN IF groupCount(cfg) = 0 THEN withGroups
       ELSE [withGroups EXCEPT !.groups =
                Ptr([i \in 1..groupCount(cfg) |-> fillDatasets(At(withGroups.groups, i - 1))])]

\* the first group whose datasets cannot be read (groups itself readable)
firstBadGroup(cfg) ==
    CHOOSE b \in 0..(groupCount(cfg) - 1) :
        /\ ~groupsReadable(cfg, b + 1)
        /\ groupsReadable(cfg, b)

\* doc_ at the moment the first load through a null pointer traps: the
\* element was added to its array, the members before the load are set
trapDoc(cfg) ==
    IF ~readable(cfg.actions, actionCount(cfg))
    THEN JObj(<<Member("title", JStr(OrDefault(cfg.title, "Dashboard"))),
                Member("actions",
                       JArr(<<JObj(<<Member("autoExecuteOnConnect", JBool(FALSE)),
                                     Member("binary", JBool(FALSE))>>)>>))>>)
    ELSE IF ~readable(cfg.groups, groupCount(cfg))
    THEN SetMember(beginDoc([cfg EXCEPT !.groupCount = 0]), "groups", JArr(<<JObj(<<>>)>>))
    ELSE LET b == firstBadGroup(cfg)
             grp == At(cfg.groups, b)
             done == beginDoc([cfg EXCEPT !.groupCount = b])
         IN SetMember(done, "groups",
                JArr(Append(GetMember(done, "groups").v,
                     JObj(<<Member("title", JStr(OrDefault(grp.title, ""))),
                            Member("widget", JStr(groupWidgetStr(grp.widget))),
                            Member("datasets", JArr(<<JObj(<<>>)>>))>>))))

\* the slots registered before the trap
trapSlots(cfg) ==
    IF ~readable(cfg.actions, actionCount(cfg)) \/ ~readable(cfg.groups, groupCount(cfg))
    THEN <<>>
    ELSE buildGroups([cfg EXCEPT !.groupCount = firstBadGroup(cfg)]).slots

\* the ways a call of begin() can end: it returns true with the document
\* built; on a configuration with an unreadable array the behaviour is
\* undefined, the load traps or delivers stray bytes
beginOutcomes(cfg) ==
    IF validCfg(cfg)
    THEN {[returns |-> TRUE, doc |-> beginDoc(cfg), slots |-> buildGroups(cfg).slots]}
    ELSE {[returns |-> FALSE, doc |-> trapDoc(cfg), slots |-> trapSlots(cfg)]}
         \cup {[returns |-> TRUE, doc |-> beginDoc(seenCfg(cfg, a, g, d)),
                slots |-> buildGroups(seenCfg(cfg, a, g, d)).slots] :
                   a \in StrayActions, g \in StrayGroups, d \in StrayDatasets}

\* ------------------------------------------------------------------------
\* resolveKey(): dotted path lookup and leaf formatting
\* ------------------------------------------------------------------------
\* sizeof(keyBuf) and sizeof(scratch)
KeyBufSize == 64
ScratchSize == 32

\* strtok handing out the empty runs between adjacent dots as well
RECURSIVE strtokKeepsEmpty(_, _, _)
strtokKeepsEmpty(s, i, from) ==
    LET run == <<SubSeq(s, from, i - 1)>>
    IN IF i > Len(s) THEN run
       ELSE IF CharAt(s, i) = "." THEN run \o strtokKeepsEmpty(s, i + 1, i + 1)
       ELSE strtokKeepsEmpty(s, i + 1, from)

\* strtok_r(keyBuf, "."): the maximal runs of characters other than '.',
\* in order; the run being read is s[from .. i-1]
RECURSIVE strtok(_, _, _)
strtok(s, i, from) ==
    LET run == IF from < i THEN <<SubSeq(s, from, i - 1)>> ELSE <<>>
    IN IF i > Len(s) THEN run
       ELSE IF CharAt(s, i) = "." THEN run \o strtok(s, i + 1, i + 1)
       ELSE strtok(s, i + 1, from)

\* walk going on from the same node when a segment is missing
RECURSIVE walkSkipsMissing(_, _, _)
walkSkipsMissing(node, tokens, i) ==
    IF i > Len(tokens) THEN Ptr(node)
    ELSE IF node.t # "obj" THEN NullPtr
    ELSE LET next == GetMember(node, tokens[i])
         IN IF next.t = "null" THEN walkSkipsMissing(node, tokens, i + 1)
            ELSE walkSkipsMissing(next, tokens, i + 1)

\* the while loop over the tokens: the node reached, or null
RECURSIVE walk(_, _, _)
walk(node, tokens, i) ==
    IF i > Len(tokens) THEN Ptr(node)
    ELSE IF node.t # "obj" THEN NullPtr
    ELSE LET next == GetMember(node, tokens[i])
         IN IF next.t = "null" THEN NullPtr ELSE walk(next, tokens, i + 1)

\* static_cast<double>(node.as<float>()) of an integer: the nearest value
\* with a 24-bit significand, ties to even
RECURSIVE floatUnit(_, _)
floatUnit(a, u) == IF a \div u < 16777216 THEN u ELSE floatUnit(a, 2 * u)

asFloat(n) ==
    LET a == IF n < 0 THEN -n ELSE n
        u == floatUnit(a, 1)
        q == a \div u
        r == a % u
        up == (2 * r > u) \/ (2 * r = u /\ q % 2 = 1)
        m == (IF up THEN q + 1 ELSE q) * u
    IN IF n < 0 THEN -m ELSE m

\* fmtG6 printing the digits and dropping the scale
fmtPlain(m, d) == intStr(m)

\* printf("%.6g") of the value m * 10^-d; a float leaf is taken at its
\* decimal value, the conversion to a 24-bit significand does not move the
\* sixth digit of the leaves used here
fmtG6(m, d) ==
    IF m = 0 THEN "0"
    ELSE
    LET a == IF m < 0 THEN -m ELSE m
        nd == NumDigits(a)
        \* six significant digits, rounded half to even
        k == nd - 6
        q0 == IF k > 0 THEN a \div Pow10(k) ELSE a * Pow10(-k)
        r0 == IF k > 0 THEN a % Pow10(k) ELSE 0
        half == IF k > 0 THEN 5 * Pow10(k - 1) ELSE 1
        up == k > 0 /\ (r0 > half \/ (r0 = half /\ q0 % 2 = 1))
        q1 == IF up THEN q0 + 1 ELSE q0
        carry == q1 = 1000000
        sig == IF carry THEN 100000 ELSE q1
        \* decimal exponent of the leading digit
        X == (nd - 1 - d) + (IF carry THEN 1 ELSE 0)
        digits == PadDigits(sig, 6)
        sign == IF m < 0 THEN "-" ELSE ""
        frac(s) == IF StripZeros(s) = "" THEN "" ELSE "." \o StripZeros(s)
        absX == IF X < 0 THEN -X ELSE X
    IN IF X < -4 \/ X >= 6
       THEN sign \o CharAt(digits, 1) \o frac(SubSeq(digits, 2, 6))
                 \o "e" \o (IF X < 0 THEN "-" ELSE "+")
                 \o (IF absX < 10 THEN "0" ELSE "") \o uintStr(absX)
       ELSE IF X >= 0
       THEN sign \o SubSeq(digits, 1, X + 1) \o frac(SubSeq(digits, X + 2, 6))
       ELSE sign \o "0" \o frac(PadDigits(0, absX - 1) \o digits)

\* snprintf(scratch, scratchLen, ...): at most scratchLen - 1 characters
snprintf(scratchLen, text) == Take(text, scratchLen - 1)

\* JsonVariantConst::is<T>(): is<float>() holds of every number, integers
\* included; is<int64_t>() and is<uint64_t>() hold of integers in range
isString(node) == node.t = "str"
isFloat(node) == node.t \in {"float", "int"}
isInt64(node) == node.t = "int"
isUInt64(node) == node.t = "int" /\ node.v >= 0
isBool(node) == node.t = "bool"

\* fmtBool writing the JSON words
fmtBoolWord(b) == IF b THEN "true" ELSE "false"

\* "%u" of (b ? 1u : 0u)
fmtBool(b) == IF b THEN "1" ELSE "0"

\* leafToString handing out an empty string for a leaf of any other type
leafToStringBlank(node, scratchLen) ==
    IF isString(node) THEN Ptr(node.v)
    ELSE IF isFloat(node)
    THEN Ptr(snprintf(scratchLen,
                      IF node.t = "int" THEN fmtG6(asFloat(node.v), 0)
                      ELSE fmtG6(node.v[1], node.v[2])))
    ELSE IF isBool(node) THEN Ptr(snprintf(scratchLen, fmtBool(node.v)))
    ELSE Ptr("")

\* the leaf conversion, in the order of the is<T>() tests of the code
leafToString(node, scratchLen) ==
    IF isString(node) THEN Ptr(node.v)
    ELSE IF isFloat(node)
    THEN Ptr(snprintf(scratchLen,
                      IF node.t = "int" THEN fmtG6(asFloat(node.v), 0)
                      ELSE fmtG6(node.v[1], node.v[2])))
    ELSE IF isInt64(node) THEN Ptr(snprintf(scratchLen, intStr(node.v)))
    ELSE IF isUInt64(node) THEN Ptr(snprintf(scratchLen, uintStr(node.v)))
    ELSE IF isBool(node) THEN Ptr(snprintf(scratchLen, fmtBool(node.v)))
    ELSE NullPtr

\* keyFits accepting a key of any length
keyFitsAlways(dottedKey) == TRUE

\* !(keyLen >= sizeof(keyBuf))
keyFits(dottedKey) == Len(Deref(dottedKey)) < KeyBufSize

\* the number of bytes memcpy writes to keyBuf, terminator included
keyBufWritten(dottedKey) ==
    IF dottedKey = NullPtr \/ Deref(dottedKey) = "" THEN 0
    ELSE IF ~keyFits(dottedKey) THEN 0
    ELSE Len(Deref(dottedKey)) + 1

\* the node the path leads to: NullPtr, or a pointer to the leaf
findLeaf(doc, dottedKey) ==
    IF dottedKey = NullPtr \/ Deref(dottedKey) = "" THEN NullPtr
    ELSE IF ~keyFits(dottedKey) THEN NullPtr
    ELSE walk(doc, strtok(Deref(dottedKey), 1, 1), 1)

\* resolveKey(doc, dottedKey, scratch, scratchLen): NullPtr, or a pointer
\* to the value string
resolveKey(doc, dottedKey, scratchLen) ==
    LET node == findLeaf(doc, dottedKey)
    IN IF node = NullPtr THEN NullPtr ELSE leafToString(Deref(node), scratchLen)

\* ------------------------------------------------------------------------
\* update(): patch the "value" leaves
\* ------------------------------------------------------------------------
\* groups[gi]["datasets"][di]: the dataset object, or null when the place
\* does not exist
datasetAt(doc, gi, di) ==
    LET groups == GetMember(doc, "groups")
    IN IF groups.t # "arr" \/ gi >= Len(groups.v) THEN JNull
       ELSE LET datasets == GetMember(groups.v[gi + 1], "datasets")
            IN IF datasets.t # "arr" \/ di >= Len(datasets.v) THEN JNull
               ELSE datasets.v[di + 1]

\* setValue writing the string to "title" as well
setValueAndTitle(doc, gi, di, val) ==
    LET groups == GetMember(doc, "groups")
        grp == groups.v[gi + 1]
        datasets == GetMember(grp, "datasets")
        ds == SetMember(SetMember(datasets.v[di + 1], "value", JStr(val)),
                        "title", JStr(val))
        datasets2 == JArr([datasets.v EXCEPT ![di + 1] = ds])
        grp2 == SetMember(grp, "datasets", datasets2)
    IN SetMember(doc, "groups", JArr([groups.v EXCEPT ![gi + 1] = grp2]))

\* ds["value"] = val at (gi, di); the string is copied into the document
setValue(doc, gi, di, val) ==
    LET groups == GetMember(doc, "groups")
        grp == groups.v[gi + 1]
        datasets == GetMember(grp, "datasets")
        ds == SetMember(datasets.v[di + 1], "value", JStr(val))
        datasets2 == JArr([datasets.v EXCEPT ![di + 1] = ds])
        grp2 == SetMember(grp, "datasets", datasets2)
    IN SetMember(doc, "groups", JArr([groups.v EXCEPT ![gi + 1] = grp2]))

\* patchSlot putting the placeholder back when the key is not found
patchSlotResets(doc, slot, telemetry) ==
    LET val == resolveKey(telemetry, slot.telemetryKey, ScratchSize)
    IN IF datasetAt(doc, slot.groupIdx, slot.datasetIdx).t = "null" THEN doc
       ELSE setValue(doc, slot.groupIdx, slot.datasetIdx,
                     IF val = NullPtr THEN "0" ELSE Deref(val))

\* one iteration of the slot loop
patchSlot(doc, slot, telemetry) ==
    LET val == resolveKey(telemetry, slot.telemetryKey, ScratchSize)
    IN IF val = NullPtr THEN doc
       ELSE IF datasetAt(doc, slot.groupIdx, slot.datasetIdx).t = "null" THEN doc
       ELSE setValue(doc, slot.groupIdx, slot.datasetIdx, Deref(val))

\* what the scratch buffer holds once the loop has passed slot s and those
\* after it
RECURSIVE lastScratch(_, _, _, _)
lastScratch(slots, s, telemetry, scratch) ==
    IF s >= Len(slots) THEN scratch
    ELSE LET leaf == findLeaf(telemetry, slots[s + 1].telemetryKey)
             val == resolveKey(telemetry, slots[s + 1].telemetryKey, ScratchSize)
         IN IF val # NullPtr /\ ~isString(Deref(leaf))
            THEN lastScratch(slots, s + 1, telemetry, Deref(val))
            ELSE lastScratch(slots, s + 1, telemetry, scratch)

\* update with the document keeping the pointer to the scratch buffer in
\* place of a copy of its characters
RECURSIVE updateByReference(_, _, _, _, _)
updateByReference(doc, slots, slotCount, s, telemetry) ==
    IF s >= slotCount THEN doc
    ELSE LET leaf == findLeaf(telemetry, slots[s + 1].telemetryKey)
             val == resolveKey(telemetry, slots[s + 1].telemetryKey, ScratchSize)
         IN IF val = NullPtr
            THEN updateByReference(doc, slots, slotCount, s + 1, telemetry)
            ELSE updateByReference(
                     setValue(doc, slots[s + 1].groupIdx, slots[s + 1].datasetIdx,
                              IF isString(Deref(leaf)) THEN Deref(val)
                              ELSE lastScratch(slots, 0, telemetry, "")),
                     slots, slotCount, s + 1, telemetry)

\* update leaving the loop at the first slot whose key is not found
RECURSIVE updateStopsAtMiss(_, _, _, _, _)
updateStopsAtMiss(doc, slots, slotCount, s, telemetry) ==
    IF s >= slotCount THEN doc
    ELSE IF resolveKey(telemetry, slots[s + 1].telemetryKey, ScratchSize) = NullPtr
    THEN doc
    ELSE updateStopsAtMiss(patchSlot(doc, slots[s + 1], telemetry), slots, slotCount,
                           s + 1, telemetry)

\* for (s = 0; s < slotCount_; ++s); a slot whose dataset is not in the
\* document (ds.isNull()) is passed over
RECURSIVE update(_, _, _, _, _)
update(doc, slots, slotCount, s, telemetry) ==
    IF s >= slotCount THEN doc
    ELSE IF datasetAt(doc, slots[s + 1].groupIdx, slots[s + 1].datasetIdx).t = "null"
    THEN update(doc, slots, slotCount, s + 1, telemetry)
    ELSE update(patchSlot(doc, slots[s + 1], telemetry), slots, slotCount, s + 1, telemetry)

\* the "value" member of the dataset at (gi, di)
valueAt(doc, gi, di) == GetMember(datasetAt(doc, gi, di), "value")

\* ------------------------------------------------------------------------
\* estimateSize() and serialize()
\* ------------------------------------------------------------------------
\* measureJson(doc_) + 7
EstimateOverhead == 7
estimateSize(doc) == measureJson(doc) + EstimateOverhead

\* bufLen < 6 and bufLen < 9 of serialize()
MinPrefixLen == 6
FrameOverhead == 9

\* refusesBuffer without the length test
refusesNullOnly(bufIsNull, len) == bufIsNull

\* !buf || bufLen < 6
refusesBuffer(bufIsNull, len) == bufIsNull \/ len < MinPrefixLen

\* suffixNeed with the newline of pretty mode forgotten
suffixNeedCompactOnly(pretty) == 7

\* suffixNeed leaving the terminator out of the count
suffixNeedNoTerminator(pretty) == IF pretty THEN 7 ELSE 6

\* bytes needed after pos, terminator included
suffixNeed(pretty) == IF pretty THEN 8 ELSE 7

\* the bytes written after the body, terminator excluded
suffixText(pretty) == (IF pretty THEN "\n" ELSE "") \o "*/\r\n\r\n"

\* serialize(buf, bufLen, pretty): the return value, the bytes written to
\* buf[0 .. Len(text) - 1] and the index the terminator was written to
\* (-1: none written); json holds the renderings of doc_
serialize(json, bufIsNull, len, pretty) ==
    IF refusesBuffer(bufIsNull, len) THEN [ret |-> 0, text |-> "", nulAt |-> -1]
    ELSE IF len < FrameOverhead THEN [ret |-> 0, text |-> "/*", nulAt |-> -1]
    ELSE LET room == len - FrameOverhead
             body == IF pretty THEN serializeJsonPretty(json, room)
                               ELSE serializeJson(json, room)
             jsonLen == Len(body)
             pos == 2 + jsonLen
         IN IF jsonLen = 0 THEN [ret |-> 0, text |-> "/*", nulAt |-> -1]
            ELSE IF pos + suffixNeed(pretty) > len
            THEN [ret |-> 0, text |-> "/*" \o body, nulAt |-> -1]
            ELSE [ret |-> pos + Len(suffixText(pretty)),
                  text |-> "/*" \o body \o suffixText(pretty),
                  nulAt |-> pos + Len(suffixText(pretty))]

\* ------------------------------------------------------------------------
\* Configurations and telemetry snapshots supplied by the caller
\* ------------------------------------------------------------------------
\* kTestCfg of the test suite
kTestDatasets ==
    <<[DatasetCfg EXCEPT !.title = Ptr("Temp K"), !.units = Ptr("K"),
                         !.telemetryKey = Ptr("temperature.k"), !.index = 4,
                         !.widget = "Gauge",
                         !.widgetMin = 60, !.widgetMax = 300,
                         !.plotMin = 60, !.plotMax = 310,
                         !.alarmLow = 60, !.alarmHigh = 300,
                         !.graph = TRUE, !.log = TRUE, !.overviewDisplay = TRUE],
      [DatasetCfg EXCEPT !.title = Ptr("State"), !.units = Ptr(""),
                         !.telemetryKey = Ptr("state.name"), !.index = 2]>>

kTestGroups ==
    <<[GroupCfg EXCEPT !.title = Ptr("Test Group"), !.widget = "Multiplot",
                       !.datasets = Ptr(kTestDatasets), !.datasetCount = 2]>>

kTestActions ==
    <<[title |-> Ptr("Go"), txData |-> Ptr("go"), icon |-> Ptr("Play"), eol |-> Ptr("\n")]>>

kTestCfg ==
    [title |-> Ptr("Test Dashboard"), groups |-> Ptr(kTestGroups), groupCount |-> 1,
     actions |-> Ptr(kTestActions), actionCount |-> 1]

\* a configuration that leaves the optional strings unset: one dataset
\* bound to a top-level key, one without a telemetry key
kBareCfg ==
    [DashboardCfg EXCEPT !.groupCount = 1, !.groups = Ptr(
        <<[GroupCfg EXCEPT !.datasetCount = 2, !.datasets = Ptr(
            <<[DatasetCfg EXCEPT !.telemetryKey = Ptr("flag"), !.index = 1,
                                 !.widget = "Led", !.led = TRUE, !.ledHigh = 1],
              [DatasetCfg EXCEPT !.title = Ptr("Spare"), !.index = 2]>>)]>>)]

Configs == {kTestCfg, kBareCfg}

\* telemetry keys of 63 and of 64 characters
Key21 == "abcdefghijklmnopqrstu"
Key63 == Key21 \o Key21 \o Key21
Key64 == Key63 \o "v"

\* a configuration with more keyed datasets than slots: 52 datasets in
\* three groups, number 6 without a key, number 24 with an empty key, the
\* other 50 bound in turn to the three keys of the test snapshots
FullGroupSizes == <<20, 20, 12>>
FullKeys == <<"flag", "temperature.k", "state.name">>
fullDataset(n) ==
    [DatasetCfg EXCEPT !.title = Ptr("D" \o uintStr(n)), !.index = n,
                       !.telemetryKey = IF n = 6 THEN NullPtr
                                        ELSE IF n = 24 THEN Ptr("")
                                        ELSE Ptr(FullKeys[(n % 3) + 1])]
fullGroup(g, first) ==
    [GroupCfg EXCEPT !.title = Ptr("G" \o uintStr(g)), !.widget = "Datagrid",
                     !.datasetCount = FullGroupSizes[g],
                     !.datasets = Ptr([i \in 1..FullGroupSizes[g] |->
                                         fullDataset(first + i - 1)])]
kFullCfg ==
    [DashboardCfg EXCEPT !.title = Ptr("Full"), !.groupCount = 3,
                         !.groups = Ptr(<<fullGroup(1, 1), fullGroup(2, 21),
                                          fullGroup(3, 41)>>)]

\* the same with the last group cut to 10 datasets: 48 keyed datasets,
\* as many as there are slots
kExactCfg ==
    [kFullCfg EXCEPT !.title = Ptr("Exact"),
                     !.groups = Ptr(<<fullGroup(1, 1), fullGroup(2, 21),
                                      [fullGroup(3, 41) EXCEPT !.datasetCount = 10]>>)]

CapConfigs == {kFullCfg, kExactCfg}

\* a configuration whose keys exercise the path walk: three levels, a
\* missing middle segment, a string where an object is needed, an empty
\* segment, an object leaf, a missing first segment, the two long keys, a
\* segment below a number
DeepKeys ==
    <<"imu.accel.x", "imu.gyro.x", "imu.mag.x", "imu..accel.x", "imu",
      "nope.accel.x", Key63, Key64, "imu.accel.x.deep", "imu.accel">>
kDeepCfg ==
    [DashboardCfg EXCEPT !.title = Ptr("Deep"), !.groupCount = 1, !.groups = Ptr(
        <<[GroupCfg EXCEPT !.title = Ptr("Paths"), !.datasetCount = Len(DeepKeys),
              !.datasets = Ptr([i \in 1..Len(DeepKeys) |->
                  [DatasetCfg EXCEPT !.telemetryKey = Ptr(DeepKeys[i]), !.index = i]])]>>)]

\* configurations with a null array and a nonzero count
kNullActionsCfg == [kBareCfg EXCEPT !.actionCount = 1]
kNullGroupsCfg == [DashboardCfg EXCEPT !.title = Ptr("No groups"), !.groupCount = 1]
kNullDatasetsCfg ==
    [kBareCfg EXCEPT !.groupCount = 2, !.groups = Ptr(
        <<At(kBareCfg.groups, 0),
          [GroupCfg EXCEPT !.title = Ptr("Empty"), !.datasetCount = 1]>>)]

WideConfigs == {kDeepCfg, kNullActionsCfg, kNullGroupsCfg, kNullDatasetsCfg}

\* a configuration that leaves strings null: no dashboard title, an action
\* with every string null (eol included), a group without a title, a
\* dataset without title, units and key; the keyed datasets carry keys
\* with leading, trailing and doubled dots, keys made of dots only, and
\* keys that lead to an array, to an object and to a null in some snapshot
kEdgeActions ==
    <<[ActionCfg EXCEPT !.title = Ptr("Reset"), !.txData = Ptr("reset"),
                        !.eol = Ptr("\r\n")],
      [ActionCfg EXCEPT !.eol = NullPtr],
      [ActionCfg EXCEPT !.title = Ptr("Go"), !.txData = Ptr("go"), !.icon = Ptr("Play")]>>
EdgeKeys ==
    <<".temperature.k", "temperature.k.", "temperature..k", "...", "temperature.k",
      "flag", "temperature", ".", "state.name">>
kEdgeCfg ==
    [DashboardCfg EXCEPT !.actionCount = 3, !.actions = Ptr(kEdgeActions),
        !.groupCount = 2, !.groups = Ptr(
        <<[GroupCfg EXCEPT !.datasetCount = Len(EdgeKeys) + 1,
              !.datasets = Ptr([i \in 1..(Len(EdgeKeys) + 1) |->
                  IF i > Len(EdgeKeys)
                  THEN [DatasetCfg EXCEPT !.units = NullPtr, !.index = i]
                  ELSE [DatasetCfg EXCEPT !.telemetryKey = Ptr(EdgeKeys[i]),
                                          !.title = Ptr("E" \o uintStr(i)),
                                          !.index = i]])],
          [GroupCfg EXCEPT !.title = Ptr("Idle"), !.widget = "Datagrid"]>>)]

EdgeConfigs == {kEdgeCfg}

\* telemetry documents passed to update()
Snapshots ==
    { JObj(<<>>),
      JObj(<<Member("temperature", JObj(<<Member("k", JFloat(7845, 2))>>)),
             Member("state", JObj(<<Member("name", JStr("CoarseCooldown"))>>))>>),
      JObj(<<Member("temperature", JObj(<<Member("k", JInt(1234567))>>)),
             Member("state", JObj(<<Member("name", JStr("Operating"))>>)),
             Member("flag", JBool(TRUE))>>),
      JObj(<<Member("temperature", JObj(<<Member("k", JInt(42))>>)),
             Member("flag", JBool(FALSE))>>),
      JObj(<<Member("temperature", JObj(<<Member("k", JBool(TRUE))>>)),
             Member("state", JObj(<<Member("name", JStr("Off"))>>)),
             Member("flag", JStr("on"))>>),
      JObj(<<Member("temperature", JInt(5)),
             Member("state", JObj(<<Member("name", JNull)>>)),
             Member("flag", JInt(-7))>>),
      JObj(<<Member("temperature", JObj(<<Member("k", JFloat(314159265, 8))>>)),
             Member("state", JObj(<<Member("name", JFloat(1234, 8))>>)),
             Member("flag", JFloat(-2500000, 0))>>),
      JObj(<<Member("imu", JObj(<<Member("accel", JObj(<<Member("x", JFloat(15, 1))>>)),
                                  Member("mag", JStr("north"))>>)),
             Member("flag", JArr(<<JInt(1), JInt(2)>>)),
             Member(Key63, JStr("short")),
             Member(Key64, JStr("long"))>>) }

\* ------------------------------------------------------------------------
\* The component
\* ------------------------------------------------------------------------
VARIABLES
    cfg_,          \* the borrowed configuration
    doc_,          \* the JSON document
    slots_,        \* slots_[0 .. slotCount_ - 1]
    slotCount_,
    lastOp,        \* the most recent call: its name ...
    telemetry,     \* ... the snapshot passed to update()
    bufIsNull,     \* ... the arguments of serialize()
    bufLen,
    pretty,
    ret,           \* ... its return value (0 for update())
    buf,           \* ... the bytes serialize() wrote, from buf[0] on
    nulAt,         \* ... the index serialize() wrote the terminator to
    estAtBegin,    \* what estimateSize() returned right after begin(), 0: not asked
    lastResolved,  \* per slot, the formatted leaf of the last update that resolved its key
    cleared        \* what the most recent call, if begin(), found in doc_ and slots_

dashVars == <<cfg_, doc_, slots_, slotCount_, lastOp, telemetry, bufIsNull, bufLen,
              pretty, ret, buf, nulAt, estAtBegin, lastResolved, cleared>>

\* The WiFiTcpServer sketch: the clients table shared by the AsyncTCP
\* callbacks and the dashboard task, and the locals of the task
VARIABLES
    clients,       \* static AsyncClient* clients[kMaxClients]
    conn,          \* per AsyncClient object: "none" (not accepted yet), "up", "down"
    space,         \* per AsyncClient object: free bytes of its TCP send buffer
    pc,            \* the statement the dashboard task executes next
    slotIdx,       \* the position of the task's range-for over clients
    client,        \* the task's local pointer c
    txLen,         \* len, what dashboard.serialize(txBuf, kTxBufSize) returned
    offset,        \* offset of sendChunked
    submitted,     \* <<offset, written>> of every successful add() of this sendChunked call
    touched        \* the last member call the task made on a client

tcpVars == <<clients, conn, space, pc, slotIdx, client, txLen, offset, submitted, touched>>

vars == <<dashVars, tcpVars>>

\* kMaxClients of the sketch, and the null AsyncClient*
kMaxClients == 4
NoClient == 0

\* bounds: the AsyncClient objects the server accepts in a run, the bytes
\* a send buffer holds, the longest frame
MaxConns == 2
SndBuf == 2
MaxFrame == 3

ConnIds == 1..MaxConns

NoTouch == [op |-> "", client |-> NoClient, listed |-> TRUE]

\* after setup(): the server listens, the task is created, no client yet
TcpBoot ==
    /\ clients = [k \in 1..kMaxClients |-> NoClient]
    /\ conn = [id \in ConnIds |-> "none"]
    /\ space = [id \in ConnIds |-> 0]
    /\ pc = "wait"
    /\ slotIdx = 0
    /\ client = NoClient
    /\ txLen = 0
    /\ offset = 0
    /\ submitted = <<>>
    /\ touched = NoTouch

\* bounds of the buffer lengths tried
SmallBuf == 12
Slack == 3

\* the buffer lengths a caller tries: the small ones, the lengths around
\* the compact and the pretty frame, and the size estimated after begin()
BufLens(json) ==
    (0..SmallBuf)
    \cup {Len(json.compact) + EstimateOverhead + d : d \in 0..Slack}
    \cup {Len(json.pretty) + EstimateOverhead + d : d \in 0..Slack}
    \cup (IF estAtBegin > 0 THEN {estAtBegin} ELSE {})

NoCall == /\ telemetry' = JNull
          /\ bufIsNull' = FALSE /\ bufLen' = 0 /\ pretty' = FALSE
          /\ buf' = "" /\ nulAt' = -1

\* doc_.clear() and slotCount_ = 0 on a dashboard never built, and the
\* calls that clear nothing
NothingCleared == [doc |-> JNull, slots |-> <<>>]

\* Dashboard(cfg): doc_ is empty, no slot is taken
Constructed ==
    /\ doc_ = JNull
    /\ slots_ = <<>>
    /\ slotCount_ = 0
    /\ lastOp = "Dashboard"
    /\ telemetry = JNull
    /\ bufIsNull = FALSE /\ bufLen = 0 /\ pretty = FALSE
    /\ ret = 0 /\ buf = "" /\ nulAt = -1
    /\ estAtBegin = 0
    /\ lastResolved = <<>>
    /\ cleared = NothingCleared

Init == cfg_ \in Configs /\ Constructed /\ TcpBoot
InitCap == cfg_ \in CapConfigs /\ Constructed /\ TcpBoot
InitWide == cfg_ \in WideConfigs /\ Constructed /\ TcpBoot
InitEdge == cfg_ \in EdgeConfigs /\ Constructed /\ TcpBoot

\* the program has not trapped
running == lastOp # "trap"

\* Begin without `slotCount_ = 0`: the slots of the new build are
\* appended to those already there, up to the capacity
BeginKeepsSlots ==
    /\ running
    /\ \E o \in beginOutcomes(cfg_) :
          LET kept == SubSeq(slots_ \o o.slots, 1,
                             IF slotCount_ + Len(o.slots) > kMaxSlots THEN kMaxSlots
                             ELSE slotCount_ + Len(o.slots))
          IN /\ doc_' = o.doc
             /\ slots_' = kept
             /\ slotCount_' = Len(kept)
             /\ lastOp' = IF o.returns THEN "begin" ELSE "trap"
             /\ ret' = IF o.returns THEN 1 ELSE ret
             /\ lastResolved' = [s \in 1..Len(kept) |-> Placeholder]
    /\ cleared' = [doc |-> doc_, slots |-> SubSeq(slots_, 1, slotCount_)]
    /\ estAtBegin' = 0
    /\ NoCall
    /\ UNCHANGED <<cfg_, tcpVars>>

\* bool begin()
Begin ==
    /\ running
    /\ \E o \in beginOutcomes(cfg_) :
          /\ doc_' = o.doc
          /\ slots_' = o.slots
          /\ slotCount_' = Len(o.slots)
          /\ lastOp' = IF o.returns THEN "begin" ELSE "trap"
          /\ ret' = IF o.returns THEN 1 ELSE ret
          /\ lastResolved' = [s \in 1..Len(o.slots) |-> Placeholder]
    /\ cleared' = [doc |-> doc_, slots |-> SubSeq(slots_, 1, slotCount_)]
    /\ estAtBegin' = 0
    /\ NoCall
    /\ UNCHANGED <<cfg_, tcpVars>>

\* void update(const JsonDocument& telemetry)
Update ==
    /\ running
    /\ \E snap \in Snapshots :
            /\ doc_' = update(doc_, slots_, slotCount_, 0, snap)
            /\ lastOp' = "update"
            /\ ret' = 0
            /\ telemetry' = snap
            /\ lastResolved' =
                  [s \in 1..slotCount_ |->
                     LET val == resolveKey(snap, slots_[s].telemetryKey, ScratchSize)
                     IN IF val = NullPtr THEN lastResolved[s] ELSE Deref(val)]
            /\ bufIsNull' = FALSE /\ bufLen' = 0 /\ pretty' = FALSE
            /\ buf' = "" /\ nulAt' = -1
            /\ cleared' = NothingCleared
            /\ UNCHANGED <<cfg_, slots_, slotCount_, estAtBegin, tcpVars>>

\* size_t estimateSize() const
EstimateSize ==
    /\ running
    /\ lastOp' = "estimateSize"
    /\ ret' = estimateSize(doc_)
    /\ estAtBegin' = IF lastOp = "begin" THEN estimateSize(doc_) ELSE estAtBegin
    /\ NoCall
    /\ cleared' = NothingCleared
    /\ UNCHANGED <<cfg_, doc_, slots_, slotCount_, lastResolved, tcpVars>>

\* Serialize throwing the document away when the call fails
SerializeSpoils ==
    /\ running
    /\ \E json \in {renderings(doc_)} :
        \E isNull \in BOOLEAN, len \in BufLens(json), p \in BOOLEAN :
            LET r == serialize(json, isNull, len, p)
            IN /\ lastOp' = "serialize"
               /\ bufIsNull' = isNull /\ bufLen' = len /\ pretty' = p
               /\ ret' = r.ret /\ buf' = r.text /\ nulAt' = r.nulAt
               /\ telemetry' = JNull
               /\ doc_' = IF r.ret = 0 THEN JNull ELSE doc_
               /\ cleared' = NothingCleared
               /\ UNCHANGED <<cfg_, slots_, slotCount_, estAtBegin, lastResolved, tcpVars>>

\* size_t serialize(char* buf, size_t bufLen, bool pretty) const
Serialize ==
    /\ running
    /\ \E json \in {renderings(doc_)} :
        \E isNull \in BOOLEAN, len \in BufLens(json), p \in BOOLEAN :
            LET r == serialize(json, isNull, len, p)
            IN /\ lastOp' = "serialize"
               /\ bufIsNull' = isNull /\ bufLen' = len /\ pretty' = p
               /\ ret' = r.ret /\ buf' = r.text /\ nulAt' = r.nulAt
               /\ telemetry' = JNull
               /\ cleared' = NothingCleared
               /\ UNCHANGED <<cfg_, doc_, slots_, slotCount_, estAtBegin, lastResolved,
                              tcpVars>>

Next == Begin \/ Update \/ EstimateSize \/ Serialize

Spec == Init /\ [][Next]_vars

\* begin() and update() on the configuration that overflows the slot
\* table; estimateSize() and serialize() are const and leave doc_ and the
\* slot table as they are
NextCap == Begin \/ Update

SpecCap == InitCap /\ [][NextCap]_vars

\* the same component on the deep-path and the invalid configurations
SpecWide == InitWide /\ [][Next]_vars

\* begin() and update() on the configuration of null strings and dotted
\* edge keys
SpecEdge == InitEdge /\ [][NextCap]_vars

\* ------------------------------------------------------------------------
\* The WiFiTcpServer sketch: AsyncTCP callbacks and the dashboard task
\* ------------------------------------------------------------------------
\* AsyncClient as the sketch uses it: connected(), canSend() and add(),
\* which queues at most the free bytes of the send buffer and nothing on a
\* closed connection
connected(id) == conn[id] = "up"
canSend(id) == conn[id] = "up" /\ space[id] > 0
add(id, size) ==
    IF conn[id] # "up" \/ space[id] = 0 \/ size = 0 THEN 0
    ELSE IF space[id] < size THEN space[id] ELSE size

\* the client is in the clients table
listed(id) == \E k \in 1..kMaxClients : clients[k] = id

\* the first position of the table holding id
firstSlot(table, id) ==
    CHOOSE k \in 1..kMaxClients :
        table[k] = id /\ \A j \in 1..(k - 1) : table[j] # id

\* removeClient(c): the first slot equal to c is set to nullptr
removeClient(table, id) ==
    IF \E k \in 1..kMaxClients : table[k] = id
    THEN [table EXCEPT ![firstSlot(table, id)] = NoClient]
    ELSE table

\* the members of the task the callbacks leave alone
taskVars == <<pc, slotIdx, client, txLen, offset, submitted, touched>>

\* onNewClient(c): the server accepted a connection; the client takes the
\* first free slot, or is closed when there is none
onNewClient ==
    \E id \in ConnIds :
        /\ conn[id] = "none"
        /\ \A j \in 1..(id - 1) : conn[j] # "none"
        /\ IF listed(NoClient)
           THEN /\ clients' = [clients EXCEPT ![firstSlot(clients, NoClient)] = id]
                /\ conn' = [conn EXCEPT ![id] = "up"]
                /\ space' = [space EXCEPT ![id] = SndBuf]
           ELSE /\ conn' = [conn EXCEPT ![id] = "down"]
                /\ UNCHANGED <<clients, space>>
        /\ UNCHANGED <<dashVars, taskVars>>

\* onClientDisconnect(c): the peer closed the connection
onClientDisconnect ==
    \E id \in ConnIds :
        /\ conn[id] = "up"
        /\ conn' = [conn EXCEPT ![id] = "down"]
        /\ space' = [space EXCEPT ![id] = 0]
        /\ clients' = removeClient(clients, id)
        /\ UNCHANGED <<dashVars, taskVars>>

\* onClientError(c, err): the connection failed
onClientError ==
    \E id \in ConnIds :
        /\ conn[id] = "up"
        /\ conn' = [conn EXCEPT ![id] = "down"]
        /\ space' = [space EXCEPT ![id] = 0]
        /\ clients' = removeClient(removeClient(clients, id), id)
        /\ UNCHANGED <<dashVars, taskVars>>

\* the TCPIP task drains the window of a connected client: the peer
\* acknowledged data and the send buffer has room again
Ack(id) ==
    /\ conn[id] = "up"
    /\ space[id] < SndBuf
    /\ \E n \in (space[id] + 1)..SndBuf : space' = [space EXCEPT ![id] = n]
    /\ UNCHANGED <<dashVars, clients, conn, taskVars>>

TcpAck == \E id \in ConnIds : Ack(id)

\* a member call of the task on its pointer c
Touch(op) == touched' = [op |-> op, client |-> client, listed |-> listed(client)]

\* vTaskDelayUntil() returns; the task starts the scan for a connected client
TaskWake ==
    /\ pc = "wait"
    /\ pc' = "scan"
    /\ slotIdx' = 0
    /\ UNCHANGED <<dashVars, clients, conn, space, client, txLen, offset, submitted,
                   touched>>

\* for (const auto* c : clients): the load of the next table entry
TaskScan ==
    /\ pc = "scan"
    /\ IF slotIdx >= kMaxClients
       THEN pc' = "wait" /\ UNCHANGED <<slotIdx, client>>
       ELSE /\ client' = clients[slotIdx + 1]
            /\ IF clients[slotIdx + 1] = NoClient
               THEN pc' = "scan" /\ slotIdx' = slotIdx + 1
               ELSE pc' = "scan_conn" /\ UNCHANGED slotIdx
    /\ UNCHANGED <<dashVars, clients, conn, space, txLen, offset, submitted, touched>>

\* if (c && c->connected()) { anyConnected = true; break; }
TaskScanConnected ==
    /\ pc = "scan_conn"
    /\ Touch("connected")
    /\ IF connected(client)
       THEN pc' = "build" /\ UNCHANGED slotIdx
       ELSE pc' = "scan" /\ slotIdx' = slotIdx + 1
    /\ UNCHANGED <<dashVars, clients, conn, space, client, txLen, offset, submitted>>

\* dashboard.update(telemetry); len = dashboard.serialize(txBuf, kTxBufSize);
\* the frame is seen through its length only, 0 when serialize failed
TaskBuild ==
    /\ pc = "build"
    /\ \E n \in 0..MaxFrame :
          /\ txLen' = n
          /\ pc' = IF n = 0 THEN "wait" ELSE "each"
    /\ slotIdx' = 0
    /\ UNCHANGED <<dashVars, clients, conn, space, client, offset, submitted, touched>>

\* for (auto* c : clients): the load of the next table entry
TaskEach ==
    /\ pc = "each"
    /\ IF slotIdx >= kMaxClients
       THEN pc' = "wait" /\ UNCHANGED <<slotIdx, client>>
       ELSE /\ client' = clients[slotIdx + 1]
            /\ IF clients[slotIdx + 1] = NoClient
               THEN pc' = "each" /\ slotIdx' = slotIdx + 1
               ELSE pc' = "each_conn" /\ UNCHANGED slotIdx
    /\ UNCHANGED <<dashVars, clients, conn, space, txLen, offset, submitted, touched>>

\* if (!c || !c->connected()) continue; sendChunked(c, txBuf, len);
TaskEachConnected ==
    /\ pc = "each_conn"
    /\ Touch("connected")
    /\ IF connected(client)
       THEN /\ pc' = "sc_loop"
            /\ offset' = 0
            /\ submitted' = <<>>
            /\ UNCHANGED slotIdx
       ELSE /\ pc' = "each"
            /\ slotIdx' = slotIdx + 1
            /\ UNCHANGED <<offset, submitted>>
    /\ UNCHANGED <<dashVars, clients, conn, space, client, txLen>>

\* nextOffset stepping one byte too far
nextOffsetSkips(off, written) == off + written + 1

\* offset += written
nextOffset(off, written) == off + written

\* while (offset < len) { if (!c || !c->connected()) return; ...
SendLoop ==
    /\ pc = "sc_loop"
    /\ IF offset >= txLen
       THEN pc' = "sc_ret" /\ UNCHANGED touched
       ELSE /\ Touch("connected")
            /\ pc' = IF client # NoClient /\ connected(client) THEN "sc_canSend"
                      ELSE "sc_ret"
    /\ UNCHANGED <<dashVars, clients, conn, space, slotIdx, client, txLen, offset,
                   submitted>>

\* if (!c->canSend()) { vTaskDelay(5 ms); continue; }
SendCanSend ==
    /\ pc = "sc_canSend"
    /\ Touch("canSend")
    /\ pc' = IF canSend(client) THEN "sc_add" ELSE "sc_loop"
    /\ UNCHANGED <<dashVars, clients, conn, space, slotIdx, client, txLen, offset,
                   submitted>>

\* written = c->add(data + offset, len - offset);
\* if (written == 0) { vTaskDelay(5 ms); continue; }
SendAdd ==
    /\ pc = "sc_add"
    /\ Touch("add")
    /\ LET written == add(client, txLen - offset)
       IN IF written = 0
          THEN pc' = "sc_loop" /\ UNCHANGED <<space, submitted>>
          ELSE /\ pc' = "sc_send"
               /\ space' = [space EXCEPT ![client] = space[client] - written]
               /\ submitted' = Append(submitted, <<offset, written>>)
    /\ UNCHANGED <<dashVars, clients, conn, slotIdx, client, txLen, offset>>

\* c->send(); offset += written; if (offset < len) vTaskDelay(5 ms);
SendSend ==
    /\ pc = "sc_send"
    /\ Touch("send")
    /\ offset' = nextOffset(offset, submitted[Len(submitted)][2])
    /\ pc' = "sc_loop"
    /\ UNCHANGED <<dashVars, clients, conn, space, slotIdx, client, txLen, submitted>>

\* sendChunked returns to the loop over the clients
SendReturn ==
    /\ pc = "sc_ret"
    /\ pc' = "each"
    /\ slotIdx' = slotIdx + 1
    /\ UNCHANGED <<dashVars, clients, conn, space, client, txLen, offset, submitted,
                   touched>>

\* one statement of dashboardTask
Task ==
    \/ TaskWake \/ TaskScan \/ TaskScanConnected \/ TaskBuild
    \/ TaskEach \/ TaskEachConnected
    \/ SendLoop \/ SendCanSend \/ SendAdd \/ SendSend \/ SendReturn

InitTcp == cfg_ = kTestCfg /\ Constructed /\ TcpBoot

NextTcp == onNewClient \/ onClientDisconnect \/ onClientError \/ TcpAck \/ Task

\* the callbacks run on the AsyncTCP task and interleave with the
\* statements of the dashboard task
SpecTcp == InitTcp /\ [][NextTcp]_vars

\* the same with the scheduler running the dashboard task again and
\* again, and the window of a client that stays connected opening again
SpecTcpLive ==
    /\ InitTcp /\ [][NextTcp]_vars
    /\ WF_vars(Task)
    /\ \A id \in ConnIds : WF_vars(Ack(id))

\* ------------------------------------------------------------------------
\* Properties
\* ------------------------------------------------------------------------
\* the dataset value a slot addresses
slotValue(s) == valueAt(doc_, slots_[s].groupIdx, slots_[s].datasetIdx)

\* the telemetry leaf the key of slot s leads to in the last snapshot
slotLeaf(s) == findLeaf(telemetry, slots_[s].telemetryKey)

\* the length of the whole frame of a mode, terminator included
frameLen(json, p) ==
    2 + Len(IF p THEN json.pretty ELSE json.compact) + Len(suffixText(p)) + 1

\* buf[i], i counted from 0 as in C
bufAt(i) == CharAt(buf, i + 1)

\* begin() has built the document
built == doc_.t = "obj"

\* C1: serialize never writes at an index >= bufLen, the terminator included,
\* whatever the buffer length, the mode and the document.
C1_NoWritePastBuffer ==
    lastOp = "serialize" => (Len(buf) <= bufLen /\ nulAt < bufLen)

\* C1 witness: a pretty frame whose terminator lands on the last byte.
C1_Witness ==
    /\ lastOp = "serialize" /\ pretty /\ ret # 0
    /\ nulAt = bufLen - 1 /\ Len(buf) = bufLen - 1

\* C2: a buffer that cannot hold the whole frame makes serialize return 0,
\* so a nonzero return carries the complete body.
C2_ShortBufferReturnsZero ==
    \A json \in {renderings(doc_)} :
        (built /\ lastOp = "serialize" /\ bufLen < frameLen(json, pretty)) => ret = 0

\* C3: a buffer of exactly estimateSize() bytes makes compact serialize
\* succeed with the complete frame.
C3_EstimateSizeSuffices ==
    \A json \in {renderings(doc_)} :
        (built /\ lastOp = "serialize" /\ ~pretty /\ ~bufIsNull
            /\ bufLen = estimateSize(doc_))
        => (ret # 0 /\ buf = "/*" \o json.compact \o "*/\r\n\r\n")

\* C4: estimateSize() is at least the length a successful compact serialize
\* returns when the buffer is large enough for the whole frame.
C4_EstimateBoundsLength ==
    \A json \in {renderings(doc_)} :
        (built /\ lastOp = "serialize" /\ ~pretty /\ ret # 0
            /\ bufLen >= frameLen(json, FALSE))
        => estimateSize(doc_) >= ret

\* C5: a buffer sized with the estimateSize() taken right after begin()
\* still holds the complete compact frame after any updates.
C5_BeginEstimateStaysEnough ==
    (lastOp = "serialize" /\ ~pretty /\ ~bufIsNull
        /\ estAtBegin > 0 /\ bufLen = estAtBegin)
    => (ret # 0 /\ buf = "/*" \o jsonText(doc_, FALSE) \o suffixText(FALSE))

\* C6: a successful serialize wrote '/*', the JSON body, the suffix of the
\* mode and the terminator; it returns the body length + 8 (compact) or + 9
\* (pretty), and buf[return value] is the terminator.
C6_FrameLayout ==
    \A json \in {renderings(doc_)} :
        (built /\ lastOp = "serialize" /\ ret # 0) =>
            LET body == IF pretty THEN json.pretty ELSE json.compact
            IN /\ buf = "/*" \o body \o (IF pretty THEN "\n*/\r\n\r\n" ELSE "*/\r\n\r\n")
               /\ ret = Len(body) + (IF pretty THEN 9 ELSE 8)
               /\ nulAt = ret

\* C7: after a successful compact serialize returning len (the buffer large
\* enough for the whole frame), buf[len-4..len-1] is '*', '/', '\r', '\n'.
C7_DelimiterThenCrLf ==
    (built /\ lastOp = "serialize" /\ ~pretty /\ ret # 0
        /\ bufLen >= frameLen(renderings(doc_), FALSE)) =>
        /\ bufAt(ret - 4) = "*"
        /\ bufAt(ret - 3) = "/"
        /\ bufAt(ret - 2) = "\r"
        /\ bufAt(ret - 1) = "\n"

\* C8: the value of every slot-bound dataset is the formatted leaf of the
\* most recent update whose snapshot resolved its key, "0" when none did; an
\* update that does not resolve the key leaves the value as it was.
C8_Staleness ==
    \A s \in 1..slotCount_ : slotValue(s) = JStr(lastResolved[s])

\* C8 witness: an update whose snapshot lacks a slot's key, after an earlier
\* update gave that dataset a value other than the placeholder.
C8_Witness ==
    /\ lastOp = "update"
    /\ \E s \in 1..slotCount_ :
          /\ resolveKey(telemetry, slots_[s].telemetryKey, ScratchSize) = NullPtr
          /\ lastResolved[s] # "0"
          /\ slotValue(s) = JStr(lastResolved[s])

\* C9: after update(snapshot) a slot whose key leads to a string leaf holds
\* that string verbatim, and one whose key leads to a boolean leaf holds "1"
\* for true and "0" for false.
C9_StringAndBoolLeaves ==
    lastOp = "update" =>
        \A s \in 1..slotCount_ :
            slotLeaf(s) # NullPtr =>
                LET leaf == Deref(slotLeaf(s))
                IN /\ leaf.t = "str" => slotValue(s) = JStr(leaf.v)
                   /\ leaf.t = "bool" =>
                         slotValue(s) = JStr(IF leaf.v THEN "1" ELSE "0")

\* C9 witness: one update that patched a true boolean leaf and a string leaf.
C9_Witness ==
    /\ lastOp = "update" /\ slotCount_ = 2
    /\ slotLeaf(1) # NullPtr /\ slotLeaf(2) # NullPtr
    /\ Deref(slotLeaf(1)) = JBool(TRUE) /\ slotValue(1) = JStr("1")
    /\ Deref(slotLeaf(2)) = JStr("Off") /\ slotValue(2) = JStr("Off")

\* C10: an integer telemetry leaf is formatted as its plain decimal digits,
\* also when it has more than six significant digits.
C10_IntegerAsDecimal ==
    lastOp = "update" =>
        \A s \in 1..slotCount_ :
            slotLeaf(s) # NullPtr =>
                LET leaf == Deref(slotLeaf(s))
                IN leaf.t = "int" => slotValue(s) = JStr(intStr(leaf.v))

\* the text printf("%.6g") gives for the float leaves of the snapshots
Expected6g ==
    (<<7845, 2>> :> "78.45") @@ (<<314159265, 8>> :> "3.14159")
    @@ (<<1234, 8>> :> "1.234e-05") @@ (<<-2500000, 0>> :> "-2.5e+06")
    @@ (<<15, 1>> :> "1.5")

\* C11: a floating-point telemetry leaf is formatted with six significant
\* digits in general notation: 78.45 gives "78.45", 3.14159265 gives
\* "3.14159", 0.00001234 gives "1.234e-05", -2500000 gives "-2.5e+06".
C11_FloatSixSignificant ==
    lastOp = "update" =>
        \A s \in 1..slotCount_ :
            slotLeaf(s) # NullPtr =>
                LET leaf == Deref(slotLeaf(s))
                IN leaf.t = "float" =>
                      /\ leaf.v \in DOMAIN Expected6g
                      /\ slotValue(s) = JStr(Expected6g[leaf.v])

\* C11 witness: the update of the unit test, 78.45 shown as "78.45".
C11_Witness ==
    /\ lastOp = "update" /\ slotCount_ >= 1
    /\ slotLeaf(1) # NullPtr
    /\ Deref(slotLeaf(1)) = JFloat(7845, 2)
    /\ slotValue(1) = JStr("78.45")

\* the members of an object other than the one named key
membersBut(obj, key) == SelectSeq(obj.v, LAMBDA m : m.k # key)

\* the member names of an object, in order
memberNames(obj) == [i \in 1..Len(obj.v) |-> obj.v[i].k]

\* the groups array and the datasets array of group gi (from 0)
groupsOf(doc) == GetMember(doc, "groups").v
datasetsOf(doc, gi) == GetMember(groupsOf(doc)[gi + 1], "datasets").v

\* some slot addresses the dataset at (gi, di)
slotBound(gi, di) ==
    \E s \in 1..slotCount_ : slots_[s].groupIdx = gi /\ slots_[s].datasetIdx = di

\* doc and ref differ at most in the strings held by "value" members
sameStructure(doc, ref) ==
    /\ memberNames(doc) = memberNames(ref)
    /\ membersBut(doc, "groups") = membersBut(ref, "groups")
    /\ Len(groupsOf(doc)) = Len(groupsOf(ref))
    /\ \A gi \in 0..(Len(groupsOf(ref)) - 1) :
          /\ memberNames(groupsOf(doc)[gi + 1]) = memberNames(groupsOf(ref)[gi + 1])
          /\ membersBut(groupsOf(doc)[gi + 1], "datasets")
                = membersBut(groupsOf(ref)[gi + 1], "datasets")
          /\ Len(datasetsOf(doc, gi)) = Len(datasetsOf(ref, gi))
          /\ \A di \in 0..(Len(datasetsOf(ref, gi)) - 1) :
                /\ memberNames(datasetsOf(doc, gi)[di + 1])
                      = memberNames(datasetsOf(ref, gi)[di + 1])
                /\ membersBut(datasetsOf(doc, gi)[di + 1], "value")
                      = membersBut(datasetsOf(ref, gi)[di + 1], "value")
                /\ valueAt(doc, gi, di).t = "str"

\* C12: after begin(), whatever update(), serialize() and estimateSize()
\* calls follow, the document differs from the one begin() built at most in
\* the "value" strings of slot-bound datasets: title, actions, layout
\* metadata, the groups and datasets, their order and every other dataset
\* field are as begin() left them.
C12_StructureFixed ==
    built =>
        /\ sameStructure(doc_, beginDoc(cfg_))
        /\ \A gi \in 0..(Len(groupsOf(doc_)) - 1) :
              \A di \in 0..(Len(datasetsOf(doc_, gi)) - 1) :
                  ~slotBound(gi, di) => valueAt(doc_, gi, di) = JStr("0")

\* C12 witness: a frame serialized after updates changed a value.
C12_Witness ==
    /\ built /\ lastOp = "serialize" /\ ret # 0
    /\ doc_ # beginDoc(cfg_)
    /\ \E s \in 1..slotCount_ : slotValue(s) # JStr("0")

\* the dataset positions (gi, di) of a configuration, counted from 0
positions(cfg) ==
    UNION { {<<gi, di>> : di \in 0..(datasetCount(At(cfg.groups, gi)) - 1)} :
            gi \in 0..(groupCount(cfg) - 1) }

\* the configured dataset at a position
cfgDataset(cfg, pos) == At(At(cfg.groups, pos[1]).datasets, pos[2])

\* the dataset at a position carries a non-null, non-empty telemetry key
keyed(cfg, pos) ==
    /\ cfgDataset(cfg, pos).telemetryKey # NullPtr
    /\ Deref(cfgDataset(cfg, pos).telemetryKey) # ""

\* configuration order: group order, then dataset order
notAfter(p, q) == p[1] < q[1] \/ (p[1] = q[1] /\ p[2] <= q[2])

\* the number of keyed datasets up to and including a position
keyedRank(cfg, pos) ==
    Cardinality({p \in positions(cfg) : keyed(cfg, p) /\ notAfter(p, pos)})

\* K, the number of keyed datasets of a configuration
keyedCount(cfg) == Cardinality({p \in positions(cfg) : keyed(cfg, p)})

\* C13: after begin() on a valid configuration the document has one group
\* per configured group and in each as many datasets as its datasetCount;
\* the slot count is min(K, kMaxSlots), K the number of datasets with a
\* non-null, non-empty key, and slot s is the s-th such dataset in
\* configuration order.
C13_CountsAndSlotOrder ==
    (built /\ validCfg(cfg_)) =>
        /\ Len(groupsOf(doc_)) = groupCount(cfg_)
        /\ \A gi \in 0..(groupCount(cfg_) - 1) :
              Len(datasetsOf(doc_, gi)) = datasetCount(At(cfg_.groups, gi))
        /\ slotCount_ = (IF keyedCount(cfg_) < kMaxSlots THEN keyedCount(cfg_)
                                                           ELSE kMaxSlots)
        /\ Len(slots_) = slotCount_
        /\ \A s \in 1..slotCount_ :
              LET pos == <<slots_[s].groupIdx, slots_[s].datasetIdx>>
              IN /\ pos \in positions(cfg_)
                 /\ keyed(cfg_, pos)
                 /\ keyedRank(cfg_, pos) = s
                 /\ slots_[s].telemetryKey = cfgDataset(cfg_, pos).telemetryKey

\* C13 witness: begin() has run on a configuration with more keyed datasets
\* than slots and filled the table.
C13_Witness ==
    /\ lastOp = "begin" /\ validCfg(cfg_)
    /\ keyedCount(cfg_) > kMaxSlots
    /\ slotCount_ = kMaxSlots

\* C14: in every reachable state slotCount_ <= kMaxSlots, so no slot is
\* written past the end of slots_, and every slot below slotCount_ has a
\* non-empty telemetry key and a (groupIdx, datasetIdx) inside the
\* configured counts that addresses a dataset object of the document.
C14_SlotsInRange ==
    /\ slotCount_ <= kMaxSlots
    /\ Len(slots_) <= kMaxSlots
    /\ \A s \in 1..slotCount_ :
          /\ slots_[s].telemetryKey # NullPtr
          /\ Deref(slots_[s].telemetryKey) # ""
          /\ slots_[s].groupIdx < groupCount(cfg_)
          /\ slots_[s].datasetIdx < datasetCount(At(cfg_.groups, slots_[s].groupIdx))
          /\ datasetAt(doc_, slots_[s].groupIdx, slots_[s].datasetIdx).t = "obj"

\* C14 witness: an update ran with the slot table full, its last slot on
\* the last dataset of a group.
C14_Witness ==
    /\ lastOp = "update" /\ slotCount_ = kMaxSlots
    /\ slots_[kMaxSlots].datasetIdx + 1
          = datasetCount(At(cfg_.groups, slots_[kMaxSlots].groupIdx))
    /\ slotValue(kMaxSlots) # JStr("0")

\* C15: a dataset beyond the slot capacity (its key is the 49th or later
\* in configuration order) and a dataset with a null or empty key are in the
\* document and hold "0" after any sequence of updates, also when the
\* snapshots contain the key.
C15_UnboundStayZero ==
    (built /\ validCfg(cfg_)) =>
        \A pos \in positions(cfg_) :
            (~keyed(cfg_, pos) \/ keyedRank(cfg_, pos) > kMaxSlots) =>
                /\ datasetAt(doc_, pos[1], pos[2]).t = "obj"
                /\ valueAt(doc_, pos[1], pos[2]) = JStr("0")

\* C15 witness: an update whose snapshot holds the key of a dataset beyond
\* the capacity, with a value other than "0", patched a slot-bound dataset
\* with the same key and left that dataset at "0".
C15_Witness ==
    /\ lastOp = "update" /\ validCfg(cfg_)
    /\ \E pos \in positions(cfg_) :
          /\ keyed(cfg_, pos) /\ keyedRank(cfg_, pos) > kMaxSlots
          /\ resolveKey(telemetry, cfgDataset(cfg_, pos).telemetryKey, ScratchSize)
                \notin {NullPtr, Ptr("0")}
          /\ valueAt(doc_, pos[1], pos[2]) = JStr("0")
          /\ \E s \in 1..slotCount_ :
                /\ slots_[s].telemetryKey = cfgDataset(cfg_, pos).telemetryKey
                /\ slotValue(s) # JStr("0")

\* C16: right after begin(), before any update(), the "value" of every
\* dataset of every group is the string "0".
C16_InitialValuesZero ==
    (lastOp = "begin" /\ validCfg(cfg_)) =>
        /\ Len(groupsOf(doc_)) = groupCount(cfg_)
        /\ \A gi \in 0..(Len(groupsOf(doc_)) - 1) :
              \A di \in 0..(Len(datasetsOf(doc_, gi)) - 1) :
                  valueAt(doc_, gi, di) = JStr("0")

\* C16 witness: begin() has returned on the configuration of the unit
\* tests, both datasets built and slot-bound.
C16_Witness ==
    /\ lastOp = "begin" /\ cfg_ = kTestCfg
    /\ Len(datasetsOf(doc_, 0)) = 2 /\ slotCount_ = 2
    /\ valueAt(doc_, 0, 0) = JStr("0") /\ valueAt(doc_, 0, 1) = JStr("0")

\* C17: begin() returns true on a valid configuration; on an invalid one
\* (a null groups, actions or datasets array with a nonzero count) it
\* returns false and leaves no partially built document.
C17_InvalidConfigReturnsFalse ==
    /\ (lastOp = "begin" /\ validCfg(cfg_)) => ret = 1
    /\ (lastOp \in {"begin", "trap"} /\ ~validCfg(cfg_)) =>
          (lastOp = "begin" /\ ret = 0 /\ doc_ = JNull)

\* C18: serialize returns 0 when buf is null or bufLen < 9, in both modes,
\* and writes nothing to the buffer when buf is null or bufLen < 6.
C18_NullOrTinyBufferReturnsZero ==
    lastOp = "serialize" =>
        /\ (bufIsNull \/ bufLen < 9) => ret = 0
        /\ (bufIsNull \/ bufLen < 6) => (buf = "" /\ nulAt = -1)

\* C18 witness: the unit test, a built dashboard serialized into char[4].
C18_Witness ==
    /\ built /\ lastOp = "serialize" /\ ~bufIsNull /\ ~pretty
    /\ bufLen = 4 /\ ret = 0 /\ buf = ""

\* the segments of a dotted key: its maximal runs of characters other
\* than '.', in order
segmentStarts(s) ==
    {i \in 1..Len(s) : CharAt(s, i) # "." /\ (i = 1 \/ CharAt(s, i - 1) = ".")}

segmentEnd(s, i) ==
    CHOOSE j \in i..Len(s) :
        /\ \A k \in i..j : CharAt(s, k) # "."
        /\ (j = Len(s) \/ CharAt(s, j + 1) = ".")

segments(s) ==
    [n \in 1..Cardinality(segmentStarts(s)) |->
        LET i == CHOOSE i \in segmentStarts(s) :
                     Cardinality({j \in segmentStarts(s) : j < i}) = n - 1
        IN SubSeq(s, i, segmentEnd(s, i))]

\* doc[seg1][seg2]...[segn] for up to four segments; null when a member
\* is missing, is null, or is asked of something that is no object
memberPath(doc, segs, n) ==
    CASE n = 0 -> doc
      [] n = 1 -> GetMember(doc, segs[1])
      [] n = 2 -> GetMember(GetMember(doc, segs[1]), segs[2])
      [] n = 3 -> GetMember(GetMember(GetMember(doc, segs[1]), segs[2]), segs[3])
      [] n = 4 -> GetMember(GetMember(GetMember(GetMember(doc, segs[1]), segs[2]),
                                      segs[3]), segs[4])

\* C19: resolveKey walks the snapshot one dot-separated segment at a time
\* (empty segments are not segments: strtok_r skips them); it is not-found
\* as soon as a segment is missing from the current object or the current
\* node is no object while a segment remains, and it returns a value only
\* if every segment in order names an existing member; the node it reaches
\* is then the member the whole path names.
C19_SegmentWalk ==
    lastOp = "update" =>
        \A s \in 1..slotCount_ :
            LET key == Deref(slots_[s].telemetryKey)
                segs == segments(key)
                n == Len(segs)
                everySegmentFound ==
                    \A m \in 1..n :
                        /\ memberPath(telemetry, segs, m - 1).t = "obj"
                        /\ HasMember(memberPath(telemetry, segs, m - 1), segs[m])
                        /\ memberPath(telemetry, segs, m).t # "null"
            IN Len(key) < 64 =>
                 /\ n <= 4
                 /\ (slotLeaf(s) # NullPtr) <=> everySegmentFound
                 /\ slotLeaf(s) # NullPtr =>
                        Deref(slotLeaf(s)) = memberPath(telemetry, segs, n)
                 /\ resolveKey(telemetry, slots_[s].telemetryKey, ScratchSize) # NullPtr
                        => everySegmentFound
                 /\ ~everySegmentFound => slotValue(s) = JStr(lastResolved[s])

\* C19 witness: one update in which "imu.accel.x" resolved to 1.5 while
\* "imu.gyro.x" (middle segment missing), "imu.mag.x" (a string where an
\* object is needed) and "nope.accel.x" (first segment missing) did not.
C19_Witness ==
    /\ lastOp = "update" /\ cfg_ = kDeepCfg /\ slotCount_ = Len(DeepKeys)
    /\ HasMember(telemetry, "imu")
    /\ slotValue(1) = JStr("1.5")
    /\ slotLeaf(2) = NullPtr /\ slotValue(2) = JStr("0")
    /\ slotLeaf(3) = NullPtr /\ slotValue(3) = JStr("0")
    /\ slotLeaf(6) = NullPtr /\ slotValue(6) = JStr("0")

\* C20: a telemetry key of 64 or more characters is not-found and nothing
\* is copied to the 64-byte token buffer; a key of 63 characters is copied
\* whole (64 bytes with the terminator) and resolved; the dataset with the
\* over-long key has a slot but keeps the value "0" through every update.
C20_KeyLengthLimit ==
    /\ \A s \in 1..slotCount_ :
          LET k == slots_[s].telemetryKey
          IN /\ keyBufWritten(k) <= 64
             /\ Len(Deref(k)) >= 64 =>
                   /\ slotLeaf(s) = NullPtr
                   /\ slotValue(s) = JStr("0")
             /\ (Len(Deref(k)) = 63 /\ lastOp = "update"
                    /\ GetMember(telemetry, Deref(k)).t = "str") =>
                   /\ keyBufWritten(k) = 64
                   /\ slotValue(s) = GetMember(telemetry, Deref(k))
    /\ (built /\ validCfg(cfg_)) =>
          \A pos \in positions(cfg_) :
              (keyed(cfg_, pos) /\ keyedRank(cfg_, pos) <= kMaxSlots) =>
                  slotBound(pos[1], pos[2])

\* C20 witness: an update whose snapshot has a member for the 63-character
\* key and one for the 64-character key; the first dataset took the value,
\* the second is slot-bound and still "0".
C20_Witness ==
    /\ lastOp = "update"
    /\ GetMember(telemetry, Key63) = JStr("short")
    /\ GetMember(telemetry, Key64) = JStr("long")
    /\ \E s1, s2 \in 1..slotCount_ :
          /\ Deref(slots_[s1].telemetryKey) = Key63 /\ slotValue(s1) = JStr("short")
          /\ Deref(slots_[s2].telemetryKey) = Key64 /\ slotValue(s2) = JStr("0")

\* the string a configuration string leaves in the document
configured(p, dflt) == JStr(IF p = NullPtr THEN dflt ELSE Deref(p))

\* the actions array of the document
actionsOf(doc) == GetMember(doc, "actions").v

\* C21: no null string of the configuration reaches the document: a null
\* dashboard title is "Dashboard", a null action eol is "\n", null action
\* icon, title and txData and null group and dataset title and units are
\* ""; the actions array holds one object per configured action, in the
\* order of the configuration.
C21_NullStringsDefaulted ==
    (built /\ validCfg(cfg_)) =>
        /\ GetMember(doc_, "title") = configured(cfg_.title, "Dashboard")
        /\ Len(actionsOf(doc_)) = actionCount(cfg_)
        /\ \A i \in 1..actionCount(cfg_) :
              LET a == At(cfg_.actions, i - 1)
                  obj == actionsOf(doc_)[i]
              IN /\ GetMember(obj, "eol") = configured(a.eol, "\n")
                 /\ GetMember(obj, "icon") = configured(a.icon, "")
                 /\ GetMember(obj, "title") = configured(a.title, "")
                 /\ GetMember(obj, "txData") = configured(a.txData, "")
        /\ Len(groupsOf(doc_)) = groupCount(cfg_)
        /\ \A pos \in positions(cfg_) :
              LET ds == cfgDataset(cfg_, pos)
                  dObj == datasetAt(doc_, pos[1], pos[2])
              IN /\ GetMember(dObj, "title") = configured(ds.title, "")
                 /\ GetMember(dObj, "units") = configured(ds.units, "")
        /\ \A gi \in 0..(groupCount(cfg_) - 1) :
              GetMember(groupsOf(doc_)[gi + 1], "title")
                  = configured(At(cfg_.groups, gi).title, "")

\* C21 witness: the document built from the configuration with a null
\* dashboard title, three actions of which the second has every string
\* null, an untitled group and a dataset without title and units.
C21_Witness ==
    /\ built /\ cfg_ = kEdgeCfg /\ cfg_.title = NullPtr
    /\ At(cfg_.actions, 1).eol = NullPtr /\ At(cfg_.actions, 1).title = NullPtr
    /\ GetMember(doc_, "title") = JStr("Dashboard")
    /\ Len(actionsOf(doc_)) = 3
    /\ GetMember(actionsOf(doc_)[1], "title") = JStr("Reset")
    /\ GetMember(actionsOf(doc_)[2], "eol") = JStr("\n")
    /\ GetMember(actionsOf(doc_)[2], "title") = JStr("")
    /\ GetMember(actionsOf(doc_)[3], "title") = JStr("Go")
    /\ GetMember(groupsOf(doc_)[1], "title") = JStr("")
    /\ GetMember(datasetAt(doc_, 0, Len(EdgeKeys)), "units") = JStr("")
    /\ GetMember(datasetAt(doc_, 0, Len(EdgeKeys)), "title") = JStr("")

\* the node the segments of a slot's key name in a snapshot, by nested
\* member lookup; null when there is none
namedLeaf(snap, s) ==
    LET segs == segments(Deref(slots_[s].telemetryKey))
    IN memberPath(snap, segs, Len(segs))

\* the slot's key fits the token buffer and has at most four segments
shortKey(s) ==
    /\ Len(Deref(slots_[s].telemetryKey)) < KeyBufSize
    /\ Len(segments(Deref(slots_[s].telemetryKey))) <= 4

\* C22: an update whose snapshot holds an array, an object or null where a
\* slot's key leads leaves that dataset's value exactly as it was before
\* the call; it is not overwritten with an empty or placeholder string.
C22_NonScalarLeafKept ==
    [][lastOp' = "update" =>
          \A s \in 1..slotCount_ :
              (shortKey(s) /\ namedLeaf(telemetry', s).t \in {"arr", "obj", "null"}) =>
                  valueAt(doc_', slots_[s].groupIdx, slots_[s].datasetIdx)
                      = valueAt(doc_, slots_[s].groupIdx, slots_[s].datasetIdx)]_vars

\* C22 witness: an update whose snapshot holds an array under "flag", after
\* an earlier update gave the dataset bound to "flag" a value other than
\* the placeholder; that value is still there.
C22_Witness ==
    /\ lastOp = "update"
    /\ GetMember(telemetry, "flag").t = "arr"
    /\ \E s \in 1..slotCount_ :
          /\ Deref(slots_[s].telemetryKey) = "flag"
          /\ namedLeaf(telemetry, s).t = "arr"
          /\ slotValue(s).t = "str"
          /\ slotValue(s).v \notin {"0", ""}
          /\ slotValue(s) = JStr(lastResolved[s])

\* what resolveKey returns for the key of slot s on the last snapshot
slotResolved(s) == resolveKey(telemetry, slots_[s].telemetryKey, ScratchSize)

\* C23: update handles every slot on its own: after update each slot whose
\* key resolves holds its new value, wherever it stands in the slot table
\* and whichever slots before or after it did not resolve; those keep
\* their values.
C23_SlotsIndependent ==
    lastOp = "update" =>
        \A s \in 1..slotCount_ :
            /\ slotResolved(s) # NullPtr => slotValue(s) = JStr(Deref(slotResolved(s)))
            /\ slotResolved(s) = NullPtr => slotValue(s) = JStr(lastResolved[s])

\* C23 witness: one update in which the fourth and the seventh slot did not
\* resolve while the first, the fifth between them and the ninth after
\* them took their new values.
C23_Witness ==
    /\ lastOp = "update" /\ cfg_ = kEdgeCfg /\ slotCount_ = Len(EdgeKeys)
    /\ slotResolved(4) = NullPtr /\ slotResolved(7) = NullPtr
    /\ slotResolved(1) = Ptr("78.45") /\ slotValue(1) = JStr("78.45")
    /\ slotResolved(5) = Ptr("78.45") /\ slotValue(5) = JStr("78.45")
    /\ slotResolved(9) = Ptr("CoarseCooldown") /\ slotValue(9) = JStr("CoarseCooldown")

\* C24: serialize and estimateSize leave the document, the slot table and
\* the configuration as they are, whether they succeed or fail; what
\* serialize writes depends on the document and its arguments only: a call
\* repeated with the same arguments right after another serialize writes
\* the same bytes and returns the same length, and a call with a buffer
\* that holds the whole frame writes the complete frame of the current
\* document whatever calls failed before it.
C24_ConstCallsKeepDocument ==
    /\ [][lastOp' \in {"serialize", "estimateSize"} =>
             /\ doc_' = doc_ /\ slots_' = slots_ /\ slotCount_' = slotCount_
             /\ cfg_' = cfg_]_vars
    /\ [][(lastOp = "serialize" /\ lastOp' = "serialize" /\ bufIsNull' = bufIsNull
              /\ bufLen' = bufLen /\ pretty' = pretty) =>
             (ret' = ret /\ buf' = buf /\ nulAt' = nulAt)]_vars
    /\ [](\A json \in {renderings(doc_)} :
             (built /\ lastOp = "serialize" /\ ~bufIsNull
                 /\ bufLen >= frameLen(json, pretty)) =>
                 /\ ret = frameLen(json, pretty) - 1
                 /\ buf = "/*" \o (IF pretty THEN json.pretty ELSE json.compact)
                              \o suffixText(pretty))

\* C24 witness: a pretty serialize that failed after writing the prefix and
\* a part of the body to the buffer; the document still holds the values
\* the updates gave it and the structure begin() built.
C24_Witness ==
    /\ built /\ lastOp = "serialize" /\ pretty /\ ret = 0 /\ Len(buf) > 2
    /\ slotCount_ = 2
    /\ slotValue(1) = JStr("78.45") /\ slotValue(2) = JStr("CoarseCooldown")
    /\ sameStructure(doc_, beginDoc(cfg_))

\* the leaf of slot s is formatted into the scratch buffer: a number or a
\* boolean
usesScratch(s) ==
    /\ shortKey(s)
    /\ namedLeaf(telemetry, s).t \in {"int", "float", "bool"}

\* C25: update formats every numeric and boolean leaf into the one scratch
\* buffer; all the same, after update each such dataset holds the text
\* formatted from the leaf of its own key, and once update has returned and
\* the snapshot is gone every slot-bound dataset still holds the text it
\* was given.
C25_ScratchReuseSafe ==
    /\ lastOp = "update" =>
          \A s \in 1..slotCount_ :
              usesScratch(s) =>
                  /\ slotValue(s).t = "str"
                  /\ Len(slotValue(s).v) < ScratchSize
                  /\ Ptr(slotValue(s).v) = leafToString(namedLeaf(telemetry, s), ScratchSize)
    /\ lastOp \in {"serialize", "estimateSize"} =>
          /\ telemetry = JNull
          /\ \A s \in 1..slotCount_ : slotValue(s) = JStr(lastResolved[s])

\* C25 witness: a frame serialized after an update in which two slots were
\* formatted through the scratch buffer, to different texts.
C25_Witness ==
    /\ lastOp = "serialize" /\ ret # 0 /\ telemetry = JNull
    /\ slotCount_ = 2
    /\ lastResolved = <<"3.14159", "1.234e-05">>
    /\ slotValue(1) = JStr("3.14159")
    /\ slotValue(2) = JStr("1.234e-05")

\* every dataset of a document holds the placeholder
allPlaceholders(doc) ==
    \A gi \in 0..(Len(groupsOf(doc)) - 1) :
        \A di \in 0..(Len(datasetsOf(doc, gi)) - 1) :
            valueAt(doc, gi, di) = JStr("0")

\* C26: begin() called on a dashboard that is already built rebuilds it
\* from scratch: the slot table is the one the first begin() made (its
\* count is reset, not added to), every dataset value is "0" again, and the
\* document is the one a single begin() builds: the structure of the
\* document it replaces, with every value at the placeholder.
C26_BeginAgainRebuilds ==
    (lastOp = "begin" /\ validCfg(cfg_) /\ cleared.doc.t = "obj") =>
        /\ slotCount_ = Len(cleared.slots)
        /\ SubSeq(slots_, 1, slotCount_) = cleared.slots
        /\ slotCount_ <= kMaxSlots
        /\ sameStructure(doc_, cleared.doc)
        /\ allPlaceholders(doc_)
        /\ doc_ = beginDoc(cfg_)
        /\ slots_ = buildGroups(cfg_).slots

\* C26 witness: begin() called after updates had given both datasets of
\* the unit-test configuration their values; both are "0" again and there
\* are two slots as before.
C26_Witness ==
    /\ lastOp = "begin" /\ cfg_ = kTestCfg
    /\ cleared.doc.t = "obj" /\ Len(cleared.slots) = 2
    /\ valueAt(cleared.doc, 0, 0) = JStr("78.45")
    /\ valueAt(cleared.doc, 0, 1) = JStr("CoarseCooldown")
    /\ slotCount_ = 2
    /\ valueAt(doc_, 0, 0) = JStr("0") /\ valueAt(doc_, 0, 1) = JStr("0")

\* the segments joined with single dots: the key without its empty segments
RECURSIVE dotted(_)
dotted(segs) ==
    IF Len(segs) = 0 THEN ""
    ELSE IF Len(segs) = 1 THEN segs[1]
    ELSE segs[1] \o "." \o dotted(Tail(segs))

\* the segments of the key of slot s
slotSegments(s) == segments(Deref(slots_[s].telemetryKey))

\* C27: resolveKey ignores empty path segments: a key with a leading, a
\* trailing or a doubled dot resolves exactly like the key made of its
\* non-empty segments, so the datasets bound to such keys hold the same
\* value; a key made of dots only is not-found and its dataset stays "0".
C27_EmptySegmentsIgnored ==
    lastOp = "update" =>
        \A s \in 1..slotCount_ :
            shortKey(s) =>
                /\ Len(slotSegments(s)) = 0 =>
                       (slotResolved(s) = NullPtr /\ slotValue(s) = JStr("0"))
                /\ Len(slotSegments(s)) > 0 =>
                       slotResolved(s)
                          = resolveKey(telemetry, Ptr(dotted(slotSegments(s))), ScratchSize)
                /\ \A s2 \in 1..slotCount_ :
                       slotSegments(s2) = slotSegments(s) => slotValue(s2) = slotValue(s)

\* C27 witness: one update after which the datasets bound to
\* ".temperature.k", "temperature.k.", "temperature..k" and "temperature.k"
\* all hold "78.45" while those bound to "..." and "." hold "0".
C27_Witness ==
    /\ lastOp = "update" /\ cfg_ = kEdgeCfg /\ slotCount_ = Len(EdgeKeys)
    /\ \A s \in {1, 2, 3, 5} :
          /\ slotSegments(s) = <<"temperature", "k">>
          /\ slotResolved(s) = Ptr("78.45")
          /\ slotValue(s) = JStr("78.45")
    /\ Deref(slots_[1].telemetryKey) = ".temperature.k"
    /\ Deref(slots_[2].telemetryKey) = "temperature.k."
    /\ Deref(slots_[3].telemetryKey) = "temperature..k"
    /\ \A s \in {4, 8} :
          /\ slotSegments(s) = <<>>
          /\ slotResolved(s) = NullPtr
          /\ slotValue(s) = JStr("0")

\* C28: in pretty mode, with a buffer given, serialize returns nonzero
\* exactly when bufLen >= P + 10, P the length of the pretty-printed body
\* (2 prefix + P + 7 suffix + 1 terminator); every shorter buffer makes it
\* return 0, so a success always carries the whole body and the suffix.
C28_PrettyThreshold ==
    \A json \in {renderings(doc_)} :
        (lastOp = "serialize" /\ pretty) =>
            /\ ret # 0 <=> (~bufIsNull /\ bufLen >= Len(json.pretty) + 10)
            /\ ret # 0 =>
                  /\ ret = Len(json.pretty) + 9
                  /\ buf = "/*" \o json.pretty \o "\n*/\r\n\r\n"

\* C28 witness: a pretty serialize into a buffer of P + 9 bytes: the whole
\* body was written, the suffix did not fit, the call returned 0.
C28_Witness ==
    /\ built /\ lastOp = "serialize" /\ pretty /\ ~bufIsNull
    /\ bufLen = Len(jsonText(doc_, TRUE)) + 9
    /\ ret = 0
    /\ buf = "/*" \o jsonText(doc_, TRUE)

\* the task is inside sendChunked
inSendChunked == pc \in {"sc_loop", "sc_canSend", "sc_add", "sc_send"}

\* the chunks submitted so far follow one another from offset 0 without
\* gap or overlap
contiguous ==
    \A k \in 1..Len(submitted) :
        /\ submitted[k][2] > 0
        /\ submitted[k][1] = (IF k = 1 THEN 0
                               ELSE submitted[k - 1][1] + submitted[k - 1][2])

\* the number of bytes submitted by this sendChunked call
submittedBytes ==
    IF submitted = <<>> THEN 0
    ELSE submitted[Len(submitted)][1] + submitted[Len(submitted)][2]

\* C29: sendChunked submits the bytes of the frame in increasing offset
\* order, without gap or repetition, and offset never exceeds len; when it
\* returns with the client still connected, exactly len bytes have been
\* submitted; and, a connected client's window opening again or the client
\* disconnecting, every call of sendChunked returns.
C29_ChunkedSend ==
    /\ [](/\ contiguous
          /\ (inSendChunked \/ pc = "sc_ret") =>
                 (offset <= txLen /\ submittedBytes <= txLen)
          /\ (pc \in {"sc_loop", "sc_canSend", "sc_add", "sc_ret"}) =>
                 offset = submittedBytes
          /\ (pc = "sc_ret" /\ connected(client)) => submittedBytes = txLen)
    /\ (inSendChunked ~> pc = "sc_ret")

\* C29 witness: sendChunked returns with the client still connected after
\* submitting a frame of three bytes in two chunks.
C29_Witness ==
    /\ pc = "sc_ret" /\ connected(client) /\ txLen = 3
    /\ submitted = <<<<0, 2>>, <<2, 1>>>>
    /\ offset = 3

\* C30: the dashboard task makes no member call on a client that a
\* disconnect or error callback has removed from the clients table.
C30_NoUseAfterRemove ==
    touched.client # NoClient => touched.listed

====
